---- MODULE Spec2Model ----
(***************************************************************************)
(* Matchers of lepl (src/src/lepl/match.py) as generators.                 *)
(*                                                                         *)
(* A matcher applied to a stream is a Python generator.  The generator     *)
(* under study is modelled step by step: `pc` is the position of its code, *)
(* `frame` its local variables and `out` the attempts it has yielded so    *)
(* far.  The child generators it drives belong to matchers without state   *)
(* of their own; each is the list of attempts its matcher still has to     *)
(* deliver, computed by the operators that model the children's code.      *)
(*                                                                         *)
(* Strings are sequences of characters, so a stream over a string is a     *)
(* sequence of characters and a result list is a sequence of strings.      *)
(* Python's None is the empty tuple and a value x that may be None is the  *)
(* one-element tuple <<x>>.                                                *)
(*                                                                         *)
(* `core` is the core context the stream carries (None for a plain string) *)
(* and `parked` a second generator of the same matcher, suspended while    *)
(* the one in pc, frame, out and origin runs.                              *)
(***************************************************************************)
EXTENDS Integers, Sequences, FiniteSets

VARIABLES matcher, stream, pc, frame, out, origin, core, parked

vars == <<matcher, stream, pc, frame, out, origin, core, parked>>

(* Bounds of the model. *)
MaxLen == 3
MaxCount == 2
MaxAnd == 3
MaxOr == 2
MaxOps == 3
MaxDepth == 12

MaxFrames == 4

MaxSize == 2

MaxQueue == 3

Chars == {"a", "b"}

None == <<>>

Some(x) == <<x>>

Streams == UNION {[1..n -> Chars] : n \in 0..MaxLen}

(* stream[:-n]: the front of the stream kept instead of the rest *)
Advance_Front(s, n) == SubSeq(s, 1, Len(s) - n)

(* stream[n:] of Python. *)
Advance(s, n) == SubSeq(s, n + 1, Len(s))

(* stream[0:n] of Python. *)
Prefix(s, n) == SubSeq(s, 1, IF n < Len(s) THEN n ELSE Len(s))

(* An attempt is a pair (result list, remaining stream). *)
Attempt(result, rest) == <<result, rest>>

(* In a list of attempts, the place where next() raises an error instead of delivering
   an attempt; nothing follows it. *)
Raised == Attempt(<<<<"SyntaxError">>>>, <<"SyntaxError">>)

Raising(attempts) == attempts # <<>> /\ attempts[Len(attempts)] = Raised

(***************************************************************************)
(* Matcher objects: what the constructors store.                           *)
(***************************************************************************)
Any(restrict) == [kind |-> "Any", restrict |-> restrict]

Literal(text) == [kind |-> "Literal", text |-> text]

Empty == [kind |-> "Empty"]

And(matchers) == [kind |-> "And", matchers |-> matchers]

Or(matchers) == [kind |-> "Or", matchers |-> matchers]

Lookahead(m, negated) == [kind |-> "Lookahead", matcher |-> m, negated |-> negated]

Commit == [kind |-> "Commit"]

(* Apply.__init__ with a callable; the function is known by its name *)
Apply(m, function, raw, args) ==
    [kind |-> "Apply", matcher |-> m, function |-> function, raw |-> raw, args |-> args]

(* Drop(matcher): Apply(matcher, lambda l: [], raw=True) *)
Drop(m) == Apply(m, "drop", TRUE, FALSE)

(* KApply.__init__; the function is known by its name *)
KApply(m, function, raw) == [kind |-> "KApply", matcher |-> m, function |-> function, raw |-> raw]

(* Delayed.__init__ leaves the target None; a bound one holds Some(target). *)
Delayed(target) == [kind |-> "Delayed", matcher |-> target]

(***************************************************************************)
(* Child generators.  A generator is the attempts it has not delivered yet *)
(* and its life cycle: "new" (never advanced), "started", "done"           *)
(* (exhausted) or "closed".                                                *)
(***************************************************************************)
(* a generator whose body runs to its first yield as soon as it is constructed *)
Generator_Eager(attempts) ==
    [rest |-> IF attempts = <<>> THEN <<>> ELSE Tail(attempts), state |-> "started"]

(* matcher(stream): the generator object, its body not yet entered *)
Generator(attempts) == [rest |-> attempts, state |-> "new"]

(* next(generator): the value (Raised when the generator raises), or None on
   StopIteration, and the generator afterwards. *)
GenNext(g) ==
    IF g.state \in {"new", "started"} /\ g.rest # <<>>
    THEN [value |-> Some(Head(g.rest)),
          generator |-> IF Head(g.rest) = Raised THEN [rest |-> <<>>, state |-> "done"]
                        ELSE [rest |-> Tail(g.rest), state |-> "started"]]
    ELSE [value |-> None,
          generator |-> [rest |-> <<>>, state |-> IF g.state = "closed" THEN "closed" ELSE "done"]]

GenClose(g) == [rest |-> <<>>, state |-> "closed"]

(* a generator whose holder lets go of it without close(): it is closed only if the
   interpreter finalizes it then *)
Dropped(generator, finalized) == IF finalized THEN GenClose(generator) ELSE generator

(* the outcomes of letting go of a generator: one that has finished is as it was *)
Finalizations(generator) == IF generator.state = "started" THEN BOOLEAN ELSE {FALSE}

RECURSIVE ConcatAll(_)
ConcatAll(ss) == IF ss = <<>> THEN <<>> ELSE Head(ss) \o ConcatAll(Tail(ss))

RECURSIVE Attempts(_, _)
RECURSIVE AndRun(_)
RECURSIVE OrCall(_, _)

(* an Any that does not look whether the stream is empty *)
AnyCall_Blind(m, s) ==
    IF m.restrict = None \/ m.restrict[1] = {} \/ (s # <<>> /\ s[1] \in m.restrict[1])
    THEN <<Attempt(<<Prefix(s, 1)>>, Advance(s, 1))>>
    ELSE <<>>

(* Any.__call__ *)
AnyCall(m, s) ==
    IF s # <<>> /\ (m.restrict = None \/ m.restrict[1] = {} \/ s[1] \in m.restrict[1])
    THEN <<Attempt(<<Prefix(s, 1)>>, Advance(s, 1))>>
    ELSE <<>>

(* Literal.__call__ *)
LiteralCall(m, s) ==
    IF m.text = Prefix(s, Len(m.text))
    THEN <<Attempt(<<m.text>>, Advance(s, Len(m.text)))>>
    ELSE <<>>

(* Empty.__call__ *)
EmptyCall(m, s) == <<Attempt(<<>>, s)>>

(***************************************************************************)
(* And.__call__.  AndEnter is the code up to the loop, AndIter one         *)
(* iteration of `while stack`, both on a record [pc, stack, out, stream].  *)
(* A stack entry is (result, generator, matchers).                         *)
(***************************************************************************)
AndEntry(result, generator, matchers) ==
    [result |-> result, generator |-> generator, matchers |-> matchers]

AndEnter(matchers, s) ==
    IF matchers # <<>>
    THEN [pc |-> "loop", out |-> <<>>, closing |-> <<>>,
          stack |-> <<AndEntry(<<>>, Generator(Attempts(matchers[1], s)), Tail(matchers))>>]
    ELSE [pc |-> "done", out |-> <<>>, closing |-> <<>>, stack |-> <<>>]

(* The stack after a successful next(generator) that is not a leaf. *)
AndPush(below, top, advanced, value) ==
    below \o <<AndEntry(top.result, advanced, top.matchers),
               AndEntry(top.result \o value[1],
                        Generator(Attempts(top.matchers[1], value[2])),
                        Tail(top.matchers))>>

(* value+result: the last child's results in front *)
AndJoin_Swapped(result, value) == value \o result

(* result+value of a yielded attempt *)
AndJoin(result, value) == result \o value

(* the finally clause: every generator left on the stack is closed *)
AndFinally(stack) ==
    [i \in 1..Len(stack) |-> [stack[i] EXCEPT !.generator = GenClose(stack[i].generator)]]

(* for (result, generator, matchers) in stack: the positions of the entries in the order
   in which the finally clause closes their generators *)
AndClosing(stack) == [i \in 1..Len(stack) |-> i]

AndIter(st) ==
    IF st.stack = <<>>
    THEN [st EXCEPT !.pc = "done"]
    ELSE LET top == st.stack[Len(st.stack)]
             below == SubSeq(st.stack, 1, Len(st.stack) - 1)
             nx == GenNext(top.generator)
         IN  IF nx.value = None
             THEN [st EXCEPT !.stack = below, !.pc = "loop"]
             ELSE IF nx.value[1] = Raised
             THEN [st EXCEPT !.stack = AndFinally(below), !.closing = AndClosing(below),
                             !.pc = "error"]
             ELSE IF top.matchers # <<>>
                  THEN [st EXCEPT !.stack = AndPush(below, top, nx.generator, nx.value[1]),
                                  !.pc = "loop"]
                  ELSE [st EXCEPT !.stack = below \o <<AndEntry(top.result, nx.generator, top.matchers)>>,
                                  !.out = Append(st.out,
                                                 Attempt(AndJoin(top.result, nx.value[1][1]), nx.value[1][2])),
                                  !.pc = "yielded"]

AndRun(st) ==
    IF st.pc = "done" THEN st.out
    ELSE IF st.pc = "error" THEN Append(st.out, Raised)
    ELSE AndRun(AndIter(st))

(* All the attempts of And(matchers) on s, in the order the generator yields them. *)
AndCall(m, s) == AndRun(AndEnter(m.matchers, s))

(* Or.__call__: for match in matchers: for result in match(stream): yield result *)
OrCall(matchers, s) ==
    IF matchers = <<>> THEN <<>>
    ELSE IF Raising(Attempts(matchers[1], s)) THEN Attempts(matchers[1], s)
    ELSE Attempts(matchers[1], s) \o OrCall(Tail(matchers), s)

(* the test of a Lookahead ignores whether it is negated *)
LookaheadSucceeds_Ignore(negated, found) == found

(* whether a Lookahead yields, given whether its child delivered an attempt *)
LookaheadSucceeds(negated, found) == IF negated THEN ~found ELSE found

(* Lookahead.__call__ *)
LookaheadCall(m, s) ==
    IF Attempts(m.matcher, s) # <<>> /\ Head(Attempts(m.matcher, s)) = Raised
    THEN <<Raised>>
    ELSE IF LookaheadSucceeds(m.negated, Attempts(m.matcher, s) # <<>>)
    THEN <<Attempt(<<>>, s)>>
    ELSE <<>>

(* The call of the function with its keyword arguments, for the functions the model knows: raise_error(msg) raises the
   syntax error, "join" returns the results joined into one string *)
Call(function, results) ==
    IF function = "raise_error" THEN [raised |-> TRUE, value |-> <<>>]
    ELSE [raised |-> FALSE, value |-> ConcatAll(results)]

(* f(a1, ..., an) for the variadic function f of the model: a string that shows its
   arguments, each closed by a comma *)
F(arguments) == <<"f">> \o ConcatAll([i \in 1..Len(arguments) |-> arguments[i] \o <<",">>])

(* The call of a function of the model with positional arguments: "f" takes any number
   of tokens; "join" is ''.join and "drop" is lambda l: [], both of one parameter, a
   list.  A call with another number of arguments is a TypeError. *)
Invoke(function, arguments) ==
    CASE function = "f" -> [raised |-> FALSE, value |-> F(arguments)]
      [] function = "join" ->
             IF Len(arguments) # 1 THEN [raised |-> TRUE, value |-> <<>>]
             ELSE [raised |-> FALSE, value |-> ConcatAll(arguments[1])]
      [] function = "drop" ->
             IF Len(arguments) # 1 THEN [raised |-> TRUE, value |-> <<>>]
             ELSE [raised |-> FALSE, value |-> <<>>]

(* self.__function of Apply called with positional arguments: the function itself when
   raw, otherwise lambda results: [function(results)], which has one parameter *)
Stored(m, arguments) ==
    IF m.raw THEN Invoke(m.function, arguments)
    ELSE IF Len(arguments) # 1 THEN [raised |-> TRUE, value |-> <<>>]
    ELSE LET called == Invoke(m.function, <<arguments[1]>>)
         IN  [raised |-> called.raised, value |-> <<called.value>>]

(* a body that yields the child's attempt as it is *)
ApplyResult_Keep(m, results, s) == Attempt(results, s)

(* the body of the `for` of Apply.__call__: what it yields, or Raised *)
ApplyResult(m, results, s) ==
    LET called == IF m.args THEN Stored(m, results) ELSE Stored(m, <<results>>)
    IN  IF called.raised THEN Raised ELSE Attempt(called.value, s)

(* Apply.__call__: the child's attempts through the function, up to the first error *)
RECURSIVE ApplyMap(_, _)
ApplyMap(m, attempts) ==
    IF attempts = <<>> THEN <<>>
    ELSE IF Head(attempts) = Raised THEN <<Raised>>
    ELSE LET y == ApplyResult(m, Head(attempts)[1], Head(attempts)[2])
         IN  IF y = Raised THEN <<Raised>> ELSE <<y>> \o ApplyMap(m, Tail(attempts))

ApplyCall(m, s) == ApplyMap(m, Attempts(m.matcher, s))

(* a body that yields the child's attempt without calling the function *)
KApplyResult_Skip(m, results, stream_out) == Attempt(results, stream_out)

(* the body of the `for` of KApply.__call__: what it yields, or Raised.  What a raw
   function returns is yielded as it is. *)
KApplyResult(m, results, stream_out) ==
    LET called == Call(m.function, results)
    IN  IF called.raised THEN Raised
        ELSE IF m.raw THEN called.value
        ELSE Attempt(<<called.value>>, stream_out)

(* KApply.__call__: the child's attempts through the function, up to the first error *)
RECURSIVE KApplyMap(_, _)
KApplyMap(m, attempts) ==
    IF attempts = <<>> THEN <<>>
    ELSE IF Head(attempts) = Raised THEN <<Raised>>
    ELSE LET y == KApplyResult(m, Head(attempts)[1], Head(attempts)[2])
         IN  IF y = Raised THEN <<Raised>> ELSE <<y>> \o KApplyMap(m, Tail(attempts))

KApplyCall(m, s) == KApplyMap(m, Attempts(m.matcher, s))

(* matcher(stream) for the matchers that serve as children. *)
Attempts(m, s) ==
    CASE m.kind = "Any" -> AnyCall(m, s)
      [] m.kind = "Literal" -> LiteralCall(m, s)
      [] m.kind = "Empty" -> EmptyCall(m, s)
      [] m.kind = "And" -> AndCall(m, s)
      [] m.kind = "Or" -> OrCall(m.matchers, s)
      [] m.kind = "Lookahead" -> LookaheadCall(m, s)
      [] m.kind = "KApply" -> KApplyCall(m, s)
      [] m.kind = "Apply" -> ApplyCall(m, s)

(***************************************************************************)
(* The children the generators are exercised with.                         *)
(***************************************************************************)
AnyA == Any(Some({"a"}))

AnyB == Any(Some({"b"}))

(* backtracks: "a" first, then "aa" *)
ShortLong == Or(<<Literal(<<"a">>), Literal(<<"a", "a">>)>>)

(* backtracks: "aa" first, then "a" *)
LongShort == Or(<<Literal(<<"a", "a">>), Literal(<<"a">>)>>)

Children == {Any(None), AnyA, ShortLong, LongShort, Empty}

(* Eof(): ~Lookahead(Any()) *)
Eof == Lookahead(Any(None), TRUE)

(***************************************************************************)
(* And(m1, ..., mk) applied to a stream, step by step.                     *)
(***************************************************************************)
AndMatchers == UNION {[1..k -> Children] : k \in 0..MaxAnd}

AndInit ==
    /\ stream \in Streams
    /\ \E ms \in AndMatchers : matcher = And(ms)
    /\ pc = "created"
    /\ frame = [stack |-> <<>>]
    /\ out = <<>>
    /\ origin = <<>>
    /\ core = None
    /\ parked = None

AndState == [pc |-> pc, stack |-> frame.stack, out |-> out, closing |-> origin]

AndSet(st) ==
    /\ pc' = st.pc
    /\ frame' = [stack |-> st.stack]
    /\ out' = st.out
    /\ origin' = st.closing
    /\ UNCHANGED <<core, parked, matcher, stream>>

(* the first next(): the code up to `while stack` *)
AndStart ==
    /\ matcher.kind = "And"
    /\ pc = "created"
    /\ AndSet(AndEnter(matcher.matchers, stream))

(* one iteration of `while stack`, entered from the loop head or on resuming from the yield *)
AndStep ==
    /\ matcher.kind = "And"
    /\ pc \in {"loop", "yielded"}
    /\ AndSet(AndIter(AndState))

AndNext == AndStart \/ AndStep

SpecAnd == AndInit /\ [][AndNext]_vars

(* close() while the generator is suspended at its yield: GeneratorExit is raised there
   and the finally clause runs; origin records the order of the closing *)
AndClose ==
    /\ matcher.kind = "And"
    /\ pc = "yielded"
    /\ AndSet([AndState EXCEPT !.stack = AndFinally(frame.stack),
                               !.closing = AndClosing(frame.stack),
                               !.pc = "closed"])

(* And over children some of which raise, advanced, and closed at any yield *)
AndCloseInit ==
    /\ stream \in Streams
    /\ \E ms \in UNION {[1..k -> Children \cup {KApply(AnyA, "raise_error", FALSE)}] : k \in 0..MaxAnd} :
          matcher = And(ms)
    /\ pc = "created"
    /\ frame = [stack |-> <<>>]
    /\ out = <<>>
    /\ origin = <<>>
    /\ core = None
    /\ parked = None

AndCloseNext == AndStart \/ AndStep \/ AndClose

SpecAndClose == AndCloseInit /\ [][AndCloseNext]_vars

(***************************************************************************)
(* Or(m1, ..., mk) applied to a stream, step by step.  The locals are the  *)
(* number of matchers the outer `for` has taken and the generator of the   *)
(* inner `for`; origin records, for each attempt, the position of the      *)
(* alternative whose generator delivered it.                               *)
(***************************************************************************)
OrMatchers == UNION {[1..k -> Children] : k \in 0..MaxOr}

OrInit ==
    /\ stream \in Streams
    /\ \E ms \in OrMatchers : matcher = Or(ms)
    /\ pc = "created"
    /\ frame = [index |-> 0, generator |-> None]
    /\ out = <<>>
    /\ origin = <<>>
    /\ core = None
    /\ parked = None

(* the alternatives taken from the right *)
OrPick_FromEnd(matchers, index) == matchers[Len(matchers) - index]

(* the matcher the outer `for` takes after `index` others *)
OrPick(matchers, index) == matchers[index + 1]

(* for match in self.__matchers: ... match(stream) *)
OrOuter ==
    /\ matcher.kind = "Or"
    /\ pc \in {"created", "outer"}
    /\ IF frame.index < Len(matcher.matchers)
       THEN /\ frame' = [index |-> frame.index + 1,
                         generator |-> Some(Generator(Attempts(OrPick(matcher.matchers, frame.index), stream)))]
            /\ pc' = "inner"
       ELSE /\ frame' = [frame EXCEPT !.generator = None]
            /\ pc' = "done"
    /\ UNCHANGED <<core, parked, matcher, stream, out, origin>>

(* for result in match(stream): yield result *)
OrInner ==
    /\ matcher.kind = "Or"
    /\ pc \in {"inner", "yielded"}
    /\ LET nx == GenNext(frame.generator[1])
       IN  /\ frame' = [frame EXCEPT !.generator = Some(nx.generator)]
           /\ IF nx.value = None
              THEN /\ pc' = "outer"
                   /\ UNCHANGED <<out, origin>>
              ELSE IF nx.value[1] = Raised
              THEN /\ pc' = "error"
                   /\ UNCHANGED <<out, origin>>
              ELSE /\ pc' = "yielded"
                   /\ out' = Append(out, nx.value[1])
                   /\ origin' = Append(origin, frame.index)
    /\ UNCHANGED <<core, parked, matcher, stream>>

OrNext == OrOuter \/ OrInner

SpecOr == OrInit /\ [][OrNext]_vars

(***************************************************************************)
(* Repeat.  The constructor keeps first (the matcher of the first          *)
(* occurrence), second (the matcher of the later ones), the bounds and the *)
(* direction; `given` remembers the arguments for the properties.          *)
(***************************************************************************)
Repeat(m, start, stop, direction, separator) ==
    [kind |-> "Repeat",
     first |-> m,
     second |-> IF separator = None THEN m ELSE And(<<separator[1], m>>),
     start |-> start, stop |-> stop, direction |-> direction,
     given |-> [matcher |-> m, separator |-> separator]]

(* first and second exchanged *)
RepeatMatcher_Swapped(r, count) == IF 0 = count THEN r.second ELSE r.first

(* Repeat.__matcher *)
RepeatMatcher(r, count) == IF 0 = count THEN r.first ELSE r.second

Separators == {None, Some(AnyB)}

Directions == {-1, 0, 1}

(* a matcher that can succeed without consuming is repeated only up to a stop *)
Repeats ==
    {Repeat(m, start, stop, d, sep) :
        m \in Children, start \in 0..MaxCount,
        stop \in {None} \cup {Some(n) : n \in 0..MaxCount},
        d \in Directions, sep \in Separators}

RepeatInit ==
    /\ stream \in Streams
    /\ matcher \in {r \in Repeats :
                       /\ r.stop # None => r.stop[1] >= r.start
                       /\ r.first = Empty => r.stop # None}
    /\ pc = "created"
    /\ frame = [stack |-> <<>>, count2 |-> None, queue |-> <<>>, cur |-> None,
                generator |-> None, item |-> None, all |-> <<>>, keys |-> <<>>, pos |-> 0, dropped |-> <<>>]
    /\ out = <<>>
    /\ origin = <<>>
    /\ core = None
    /\ parked = None

(* (count, acc, stream) of the queue, with the generator on the stack *)
Entry(count, acc, s) == [count |-> count, acc |-> acc, stream |-> s]

DepthEntry(count, acc, s, generator) ==
    [count |-> count, acc |-> acc, stream |-> s, generator |-> generator]

(***************************************************************************)
(* Repeat.__depth_first (direction 0).  count2 is the local of that name:  *)
(* it is unbound until the first pass through the `if` that assigns it and *)
(* keeps its value from one iteration to the next.                         *)
(***************************************************************************)
(* the code up to `while stack`, on a record [pc, stack, count2, out, origin, dropped];
   dropped is the list of the generators that stack.pop(-1) has removed, each as it was
   when removed *)
DepthEnter(r, s) ==
    [pc |-> "loop", count2 |-> None, out |-> <<>>, origin |-> <<>>, dropped |-> <<>>,
     stack |-> <<DepthEntry(0, <<>>, s, Generator(Attempts(RepeatMatcher(r, 0), s)))>>]

DepthState ==
    [pc |-> pc, stack |-> frame.stack, count2 |-> frame.count2, out |-> out, origin |-> origin,
     dropped |-> frame.dropped]

DepthSet(st) ==
    /\ pc' = st.pc
    /\ frame' = [frame EXCEPT !.stack = st.stack, !.count2 = st.count2,
                              !.dropped = st.dropped]
    /\ out' = st.out
    /\ origin' = st.origin
    /\ UNCHANGED <<core, parked, matcher, stream>>

DepthFirstStart ==
    /\ matcher.kind = "Repeat" /\ matcher.direction = 0
    /\ pc = "created"
    /\ DepthSet(DepthEnter(matcher, stream))

(* stack.insert(0, ...): the new entry under the others *)
DepthPush_Front(stack, entry) == <<entry>> \o stack

(* stack.append(...) *)
DepthPush(stack, entry) == Append(stack, entry)

(* the test that guards `stack.pop(-1); yield (acc1, stream1)`; count2 is bound *)
DepthMayYield(r, extended, count2) ==
    /\ ~extended
    /\ count2 >= r.start
    /\ (r.stop = None \/ count2 <= r.stop[1])

(* a finally clause that closes nothing *)
DepthFinally_Leak(stack) == stack

(* the finally clause: every generator on the stack is closed *)
DepthFinally(stack) ==
    [i \in 1..Len(stack) |-> [stack[i] EXCEPT !.generator = GenClose(stack[i].generator)]]

(* one iteration of `while stack`, or the exit from the loop *)
DepthIter(r, st) ==
    IF st.stack = <<>>
    THEN [st EXCEPT !.pc = "done"]
    ELSE LET top == st.stack[Len(st.stack)]
             below == SubSeq(st.stack, 1, Len(st.stack) - 1)
             try == r.stop = None \/ top.count < r.stop[1]
             nx == GenNext(top.generator)
             (* the bare `except:` takes an error of the child for its exhaustion *)
             extended == try /\ nx.value # None /\ nx.value[1] # Raised
             count2 == IF try THEN Some(top.count + 1) ELSE st.count2
             tried == IF try THEN Append(below, [top EXCEPT !.generator = nx.generator])
                      ELSE st.stack
         IN  IF extended
             THEN [st EXCEPT
                      !.count2 = count2,
                      !.stack = DepthPush(tried,
                          DepthEntry(count2[1], top.acc \o nx.value[1][1], nx.value[1][2],
                              Generator(Attempts(RepeatMatcher(r, count2[1]), nx.value[1][2])))),
                      !.pc = "loop"]
             ELSE IF count2 = None
             THEN (* count2 is read before any assignment: UnboundLocalError *)
                  [st EXCEPT !.stack = DepthFinally(tried), !.pc = "error"]
             ELSE IF DepthMayYield(r, extended, count2[1])
             THEN [st EXCEPT !.count2 = count2, !.stack = below,
                             !.out = Append(st.out, Attempt(top.acc, top.stream)),
                             !.origin = Append(st.origin, top.count),
                             !.dropped = Append(st.dropped, tried[Len(tried)].generator),
                             !.pc = "yielded"]
             ELSE [st EXCEPT !.count2 = count2, !.stack = tried, !.pc = "loop"]

DepthFirstStep ==
    /\ matcher.kind = "Repeat" /\ matcher.direction = 0
    /\ pc \in {"loop", "yielded"}
    /\ DepthSet(DepthIter(matcher, DepthState))

(* close() of the generator: before its first next() nothing runs; at the yield
   GeneratorExit is raised there and the finally clause runs *)
DepthFirstClose ==
    /\ matcher.kind = "Repeat" /\ matcher.direction = 0
    /\ pc \in {"created", "yielded"}
    /\ DepthSet([DepthState EXCEPT !.stack = DepthFinally(@), !.pc = "closed"])

DepthCloseInit == RepeatInit /\ matcher.direction = 0

DepthCloseNext == DepthFirstStart \/ DepthFirstStep \/ DepthFirstClose

SpecDepthClose == DepthCloseInit /\ [][DepthCloseNext]_vars

(* The generator run alone to its end: the record it ends in, with pc "hang" when an
   iteration changes nothing and the loop therefore never ends. *)
RECURSIVE DepthRun(_, _)
DepthRun(r, st) ==
    IF st.pc \in {"done", "error"} THEN st
    ELSE IF DepthIter(r, st) = st THEN [st EXCEPT !.pc = "hang"]
    ELSE DepthRun(r, DepthIter(r, st))

(***************************************************************************)
(* Repeat.__with_depth, driven by __breadth_first (direction 1), which     *)
(* yields each (results, stream) it gets, or by __exhaustive (direction    *)
(* -1), which files it in the dict `all` under its depth.  `all` is the    *)
(* dict in the order of insertion of its keys.                             *)
(***************************************************************************)
(* all[depth] with the new value put first *)
AllAdd_Front(all, depth, value) ==
    IF \E i \in 1..Len(all) : all[i].depth = depth
    THEN [i \in 1..Len(all) |->
             IF all[i].depth = depth
             THEN [all[i] EXCEPT !.values = <<value>> \o all[i].values]
             ELSE all[i]]
    ELSE Append(all, [depth |-> depth, values |-> <<value>>])

(* if depth not in all: all[depth] = []; all[depth].append(...) *)
AllAdd(all, depth, value) ==
    IF \E i \in 1..Len(all) : all[i].depth = depth
    THEN [i \in 1..Len(all) |->
             IF all[i].depth = depth
             THEN [all[i] EXCEPT !.values = Append(all[i].values, value)]
             ELSE all[i]]
    ELSE Append(all, [depth |-> depth, values |-> <<value>>])

AllGet(all, depth) == all[CHOOSE i \in 1..Len(all) : all[i].depth = depth].values

(* list(all.keys()), not reversed *)
ReversedKeys_Forward(all) == [i \in 1..Len(all) |-> all[i].depth]

(* reversed(list(all.keys())) *)
ReversedKeys(all) == [i \in 1..Len(all) |-> all[Len(all) + 1 - i].depth]

(* what becomes of a (depth, results, stream) that __with_depth yields *)
Deliver(depth, results, s) ==
    IF matcher.direction > 0
    THEN /\ out' = Append(out, Attempt(results, s))
         /\ origin' = Append(origin, depth)
    ELSE UNCHANGED <<out, origin>>

Filed(all, depth, results, s) ==
    IF matcher.direction > 0 THEN all ELSE AllAdd(all, depth, Attempt(results, s))

(* queue = deque(); if 0 == self._start: yield (0, [], stream) *)
WithDepthStart ==
    /\ matcher.kind = "Repeat" /\ matcher.direction # 0
    /\ pc = "created"
    /\ UNCHANGED <<core, parked, matcher, stream>>
    /\ IF 0 = matcher.start
       THEN /\ Deliver(0, <<>>, stream)
            /\ frame' = [frame EXCEPT !.all = Filed(frame.all, 0, <<>>, stream)]
            /\ pc' = "yielded_start"
       ELSE /\ frame' = [frame EXCEPT !.queue = <<Entry(0, <<>>, stream)>>]
            /\ pc' = "while"
            /\ UNCHANGED <<out, origin>>

(* resuming after that yield: queue.append((0, [], stream)) *)
WithDepthResumeStart ==
    /\ matcher.kind = "Repeat" /\ matcher.direction # 0
    /\ pc = "yielded_start"
    /\ frame' = [frame EXCEPT !.queue = <<Entry(0, <<>>, stream)>>]
    /\ pc' = "while"
    /\ UNCHANGED <<core, parked, matcher, stream, out, origin>>

(* queue.pop(): the newest entry instead of the oldest *)
WithDepthTake_Last(queue) ==
    [entry |-> queue[Len(queue)], queue |-> SubSeq(queue, 1, Len(queue) - 1)]

(* queue.popleft(): the entry taken and the queue left *)
WithDepthTake(queue) == [entry |-> Head(queue), queue |-> Tail(queue)]

(* while queue: popleft and open the generator of the `for`; when the queue is empty
   __with_depth is exhausted and __exhaustive turns to its second loop *)
WithDepthWhile ==
    /\ matcher.kind = "Repeat" /\ matcher.direction # 0
    /\ pc = "while"
    /\ UNCHANGED <<core, parked, matcher, stream, out, origin>>
    /\ IF frame.queue = <<>>
       THEN IF matcher.direction > 0
            THEN /\ pc' = "done"
                 /\ frame' = [frame EXCEPT !.cur = None, !.generator = None]
            ELSE /\ pc' = "drain"
                 /\ frame' = [frame EXCEPT !.cur = None, !.generator = None,
                                           !.keys = ReversedKeys(frame.all), !.pos = 0]
       ELSE LET taken == WithDepthTake(frame.queue)
            IN  /\ frame' = [frame EXCEPT
                        !.queue = taken.queue,
                        !.cur = Some(taken.entry),
                        !.generator = Some(Generator(Attempts(
                                          RepeatMatcher(matcher, taken.entry.count),
                                          taken.entry.stream)))]
                /\ pc' = "for"

(* one round of `for (value, stream2) in self.__matcher(count1)(stream1)` up to its yield *)
WithDepthFor ==
    /\ matcher.kind = "Repeat" /\ matcher.direction # 0
    /\ pc = "for"
    /\ UNCHANGED <<core, parked, matcher, stream>>
    /\ LET nx == GenNext(frame.generator[1])
           count2 == frame.cur[1].count + 1
       IN  IF nx.value = None
           THEN /\ frame' = [frame EXCEPT !.generator = Some(nx.generator)]
                /\ pc' = "while"
                /\ UNCHANGED <<out, origin>>
           ELSE IF nx.value[1] = Raised
           THEN /\ frame' = [frame EXCEPT !.generator = Some(nx.generator)]
                /\ pc' = "error"
                /\ UNCHANGED <<out, origin>>
           ELSE LET acc2 == frame.cur[1].acc \o nx.value[1][1]
                    stream2 == nx.value[1][2]
                IN  IF count2 >= matcher.start /\ (matcher.stop = None \/ count2 <= matcher.stop[1])
                    THEN /\ Deliver(count2, acc2, stream2)
                         /\ frame' = [frame EXCEPT
                                 !.generator = Some(nx.generator),
                                 !.item = Some(Entry(count2, acc2, stream2)),
                                 !.all = Filed(frame.all, count2, acc2, stream2)]
                         /\ pc' = "yielded_for"
                    ELSE /\ frame' = [frame EXCEPT
                                 !.generator = Some(nx.generator),
                                 !.queue = IF matcher.stop = None \/ count2 < matcher.stop[1]
                                           THEN Append(frame.queue, Entry(count2, acc2, stream2))
                                           ELSE frame.queue]
                         /\ pc' = "for"
                         /\ UNCHANGED <<out, origin>>

(* resuming after the yield in the `for`: the second `if` of its body *)
WithDepthResumeFor ==
    /\ matcher.kind = "Repeat" /\ matcher.direction # 0
    /\ pc = "yielded_for"
    /\ frame' = [frame EXCEPT
            !.item = None,
            !.queue = IF matcher.stop = None \/ frame.item[1].count < matcher.stop[1]
                      THEN Append(frame.queue, frame.item[1])
                      ELSE frame.queue]
    /\ pc' = "for"
    /\ UNCHANGED <<core, parked, matcher, stream, out, origin>>

(* the second loop of __exhaustive: for depth in reversed(list(all.keys())):
   for (result, stream) in all[depth]: yield (result, stream) *)
ExhaustiveDrain ==
    /\ matcher.kind = "Repeat" /\ matcher.direction < 0
    /\ pc = "drain"
    /\ UNCHANGED <<core, parked, matcher, stream>>
    /\ IF frame.keys = <<>>
       THEN /\ pc' = "done"
            /\ UNCHANGED <<frame, out, origin>>
       ELSE LET depth == Head(frame.keys)
                values == AllGet(frame.all, depth)
            IN  IF frame.pos < Len(values)
                THEN /\ out' = Append(out, values[frame.pos + 1])
                     /\ origin' = Append(origin, depth)
                     /\ frame' = [frame EXCEPT !.pos = frame.pos + 1]
                     /\ pc' = "drain"
                ELSE /\ frame' = [frame EXCEPT !.keys = Tail(frame.keys), !.pos = 0]
                     /\ pc' = "drain"
                     /\ UNCHANGED <<out, origin>>

RepeatNext ==
    \/ DepthFirstStart
    \/ DepthFirstStep
    \/ WithDepthStart
    \/ WithDepthResumeStart
    \/ WithDepthWhile
    \/ WithDepthFor
    \/ WithDepthResumeFor
    \/ ExhaustiveDrain

SpecRepeat == RepeatInit /\ [][RepeatNext]_vars

(***************************************************************************)
(* A Repeat of a child that consumes a token in each of its attempts, with *)
(* a consumer that goes on asking until the sequence ends: every request   *)
(* is answered by steps of the generator, which run as long as one is      *)
(* enabled.                                                                *)
(***************************************************************************)
Consuming == {Any(None), ShortLong}

TerminateInit ==
    /\ RepeatInit
    /\ matcher.first \in Consuming
    /\ matcher.second = matcher.first

SpecTerminate == TerminateInit /\ [][RepeatNext]_vars /\ WF_vars(RepeatNext)

(***************************************************************************)
(* The construction of a Repeat, directly or through matcher[...], from    *)
(* integers that need not be valid.  frame.args are the arguments given to *)
(* Repeat.__init__; the matcher does not exist until it returns.           *)
(***************************************************************************)
Unbuilt == [kind |-> "Unbuilt"]

Arguments(m, start, stop, direction) ==
    [matcher |-> m, start |-> start, stop |-> stop, direction |-> direction]

(* BaseMatch.__getitem__ with one index: an integer n stands for n:n:-1, and a slice
   start:stop:step has the defaults 0, None and 0 *)
GetItem(m, index) ==
    IF index.slice
    THEN Arguments(m, IF index.start = None THEN 0 ELSE index.start[1],
                      index.stop,
                      IF index.step = None THEN 0 ELSE index.step[1])
    ELSE Arguments(m, index.start[1], index.start, -1)

ArgStarts == (0 - 1)..MaxCount

ArgDirections == (0 - 2)..2

Indices ==
    {[slice |-> FALSE, start |-> Some(n), stop |-> None, step |-> None] : n \in ArgStarts}
    \cup {[slice |-> TRUE, start |-> b, stop |-> e, step |-> d] :
              b \in {None} \cup {Some(n) : n \in ArgStarts},
              e \in {None} \cup {Some(n) : n \in ArgStarts},
              d \in {None, Some(1), Some(2)}}

ConstructInit ==
    /\ stream \in {<<>>, <<"a", "a">>}
    /\ matcher = Unbuilt
    /\ pc = "unbuilt"
    /\ \E m \in {Any(None), ShortLong} :
          \/ \E start \in ArgStarts, direction \in ArgDirections,
                stop \in {None} \cup {Some(n) : n \in ArgStarts} :
                 frame = [args |-> Arguments(m, start, stop, direction)]
          \/ \E index \in Indices : frame = [args |-> GetItem(m, index)]
    /\ out = <<>>
    /\ origin = <<>>
    /\ core = None
    /\ parked = None

(* the checks without the one of stop against start *)
RepeatCheck_NoStop(start, stop, direction) ==
    IF start < 0 THEN "ValueError"
    ELSE IF direction > 1 \/ direction < 0 - 1 THEN "ValueError"
    ELSE "ok"

(* the checks of Repeat.__init__ on integers, in their order *)
RepeatCheck(start, stop, direction) ==
    IF start < 0 THEN "ValueError"
    ELSE IF stop # None /\ stop[1] < start THEN "ValueError"
    ELSE IF (IF direction < 0 THEN 0 - direction ELSE direction) > 1 THEN "ValueError"
    ELSE "ok"

(* Repeat(matcher, start, stop, direction): raises, or returns the matcher, which is
   then applied to the stream *)
RepeatConstruct ==
    /\ pc = "unbuilt"
    /\ LET a == frame.args
       IN  IF RepeatCheck(a.start, a.stop, a.direction) = "ok"
           THEN /\ matcher' = Repeat(a.matcher, a.start, a.stop, a.direction, None)
                /\ pc' = "created"
                /\ frame' = [args |-> a,
                             stack |-> <<>>, count2 |-> None, queue |-> <<>>, cur |-> None,
                             generator |-> None, item |-> None, all |-> <<>>, keys |-> <<>>,
                             pos |-> 0, dropped |-> <<>>]
           ELSE /\ pc' = "error"
                /\ UNCHANGED <<matcher, frame>>
    /\ UNCHANGED <<core, parked, stream, out, origin>>

ConstructNext == RepeatConstruct \/ RepeatNext

SpecConstruct == ConstructInit /\ [][ConstructNext]_vars

(***************************************************************************)
(* Lookahead(child, negated) applied to a stream.  The first next() opens  *)
(* the child's generator and takes one round of the `for`; the second      *)
(* resumes after the yield and returns.                                    *)
(***************************************************************************)
LookaheadInit ==
    /\ stream \in Streams
    /\ matcher \in {Lookahead(m, n) : m \in Children \cup {AnyB}, n \in BOOLEAN}
    /\ pc = "created"
    /\ frame = [generator |-> None]
    /\ out = <<>>
    /\ origin = <<>>
    /\ core = None
    /\ parked = None

(* for result in self.__matcher(stream): first round.  At the yield the `for` still holds
   the child's generator; a `return` lets go of it without close() *)
LookaheadTest ==
    /\ matcher.kind = "Lookahead"
    /\ pc = "created"
    /\ LET nx == GenNext(Generator(Attempts(matcher.matcher, stream)))
       IN  IF nx.value # None /\ nx.value[1] = Raised
           THEN /\ frame' = [generator |-> Some(nx.generator)]
                /\ out' = out
                /\ pc' = "error"
           ELSE IF LookaheadSucceeds(matcher.negated, nx.value # None)
           THEN /\ frame' = [generator |-> Some(nx.generator)]
                /\ out' = Append(out, Attempt(<<>>, stream))
                /\ pc' = "yielded"
           ELSE /\ \E finalized \in Finalizations(nx.generator) :
                     frame' = [generator |-> Some(Dropped(nx.generator, finalized))]
                /\ out' = out
                /\ pc' = "done"
    /\ UNCHANGED <<core, parked, matcher, stream, origin>>

(* after the yield: `return`, or the end of the function *)
LookaheadResume ==
    /\ matcher.kind = "Lookahead"
    /\ pc = "yielded"
    /\ pc' = "done"
    /\ \E finalized \in Finalizations(frame.generator[1]) :
          frame' = [generator |-> Some(Dropped(frame.generator[1], finalized))]
    /\ UNCHANGED <<core, parked, matcher, stream, out, origin>>

LookaheadNext == LookaheadTest \/ LookaheadResume

SpecLookahead == LookaheadInit /\ [][LookaheadNext]_vars

(***************************************************************************)
(* A Delayed object under a sequence of `d += m` and `d(stream)`, each of  *)
(* which may raise ValueError; origin is the log of the operations and     *)
(* frame.generator the generator the last successful call returned.        *)
(***************************************************************************)
DelayedInit ==
    /\ stream \in Streams
    /\ matcher = Delayed(None)
    /\ pc = "idle"
    /\ frame = [generator |-> None]
    /\ out = <<>>
    /\ origin = <<>>
    /\ core = None
    /\ parked = None

(* a += that replaces the target whether or not there is one *)
DelayedIadd_Rebind(d, m) == [raised |-> FALSE, delayed |-> [d EXCEPT !.matcher = Some(m)]]

(* Delayed.__iadd__: whether it raises, and the object afterwards *)
DelayedIadd(d, m) ==
    IF d.matcher # None
    THEN [raised |-> TRUE, delayed |-> d]
    ELSE [raised |-> FALSE, delayed |-> [d EXCEPT !.matcher = Some(m)]]

(* d += m *)
DelayedBind ==
    /\ matcher.kind = "Delayed"
    /\ Len(origin) < MaxOps
    /\ \E m \in Children :
          LET bound == DelayedIadd(matcher, m)
          IN  /\ matcher' = bound.delayed
              /\ origin' = Append(origin, [op |-> "iadd", matcher |-> Some(m), raised |-> bound.raised])
    /\ UNCHANGED <<core, parked, stream, pc, frame, out>>

(* d(stream): the generator of the target, or ValueError *)
DelayedEvaluate ==
    /\ matcher.kind = "Delayed"
    /\ Len(origin) < MaxOps
    /\ IF matcher.matcher # None
       THEN /\ frame' = [generator |-> Some(Generator(Attempts(matcher.matcher[1], stream)))]
            /\ out' = <<>>
            /\ origin' = Append(origin, [op |-> "call", matcher |-> None, raised |-> FALSE])
       ELSE /\ origin' = Append(origin, [op |-> "call", matcher |-> None, raised |-> TRUE])
            /\ UNCHANGED <<frame, out>>
    /\ UNCHANGED <<core, parked, matcher, stream, pc>>

(* next() on the generator the call returned *)
DelayedAdvance ==
    /\ matcher.kind = "Delayed"
    /\ frame.generator # None
    /\ LET nx == GenNext(frame.generator[1])
       IN  /\ frame' = [generator |-> Some(nx.generator)]
           /\ out' = IF nx.value = None THEN out ELSE Append(out, nx.value[1])
    /\ UNCHANGED <<core, parked, matcher, stream, pc, origin>>

DelayedNext == DelayedBind \/ DelayedEvaluate \/ DelayedAdvance

SpecDelayed == DelayedInit /\ [][DelayedNext]_vars

(***************************************************************************)
(* Recursive grammars.  A Delayed may appear inside its own target; Recur  *)
(* stands for that reference back to the Delayed under study (`matcher`).  *)
(* The generators form a tree here, each with its own frame, and Pump is   *)
(* next() on one of them at a given depth of the Python call stack: a      *)
(* frame deeper than MaxDepth raises RecursionError.                       *)
(***************************************************************************)
Recur == [kind |-> "Recur"]

(* E = (E & Any()) | Any() *)
LeftRecursive == Delayed(Some(Or(<<And(<<Recur, Any(None)>>), Any(None)>>)))

(* E = (Any() & E) | Any() *)
RightRecursive == Delayed(Some(Or(<<And(<<Any(None), Recur>>), Any(None)>>)))

(* E = Any() | (E & Any()) *)
LeftRecursiveLater == Delayed(Some(Or(<<Any(None), And(<<Recur, Any(None)>>)>>)))

Finished == [kind |-> "Finished"]

(* m(s): the generator object, its body not yet entered *)
RECURSIVE Open(_, _, _)
Open(m, s, root) ==
    CASE m.kind = "Recur" -> Open(root, s, root)
      [] m.kind = "Delayed" -> Open(m.matcher[1], s, root)
      [] m.kind = "Or" -> [kind |-> "Or", matchers |-> m.matchers, stream |-> s, generator |-> None]
      [] m.kind = "And" -> [kind |-> "And", matchers |-> m.matchers, stream |-> s,
                            entered |-> FALSE, stack |-> <<>>]
      [] OTHER -> [kind |-> "Leaf", rest |-> Attempts(m, s)]

Yields(value, g) == [value |-> Some(value), generator |-> g, error |-> FALSE]

Exhausted == [value |-> None, generator |-> Finished, error |-> FALSE]

Raises == [value |-> None, generator |-> Finished, error |-> TRUE]

RECURSIVE Pump(_, _, _)
RECURSIVE PumpOr(_, _, _)
RECURSIVE PumpAnd(_, _, _)

(* Or.__call__ from where it stands to its next yield *)
PumpOr(g, depth, root) ==
    IF g.generator = None
    THEN IF g.matchers = <<>> THEN Exhausted
         ELSE PumpOr([g EXCEPT !.matchers = Tail(g.matchers),
                               !.generator = Some(Open(g.matchers[1], g.stream, root))],
                     depth, root)
    ELSE LET nx == Pump(g.generator[1], depth + 1, root)
         IN  IF nx.error THEN Raises
             ELSE IF nx.value = None THEN PumpOr([g EXCEPT !.generator = None], depth, root)
             ELSE Yields(nx.value[1], [g EXCEPT !.generator = Some(nx.generator)])

(* And.__call__ from where it stands to its next yield *)
PumpAnd(g, depth, root) ==
    IF ~g.entered
    THEN IF g.matchers = <<>> THEN Exhausted
         ELSE PumpAnd([g EXCEPT !.entered = TRUE,
                                !.stack = <<AndEntry(<<>>, Open(g.matchers[1], g.stream, root),
                                                     Tail(g.matchers))>>],
                      depth, root)
    ELSE IF g.stack = <<>> THEN Exhausted
    ELSE LET top == g.stack[Len(g.stack)]
             below == SubSeq(g.stack, 1, Len(g.stack) - 1)
             nx == Pump(top.generator, depth + 1, root)
         IN  IF nx.error THEN Raises
             ELSE IF nx.value = None THEN PumpAnd([g EXCEPT !.stack = below], depth, root)
             ELSE IF top.matchers # <<>>
             THEN PumpAnd([g EXCEPT !.stack = below \o
                              <<AndEntry(top.result, nx.generator, top.matchers),
                                AndEntry(top.result \o nx.value[1][1],
                                         Open(top.matchers[1], nx.value[1][2], root),
                                         Tail(top.matchers))>>],
                          depth, root)
             ELSE Yields(Attempt(AndJoin(top.result, nx.value[1][1]), nx.value[1][2]),
                         [g EXCEPT !.stack = below \o
                              <<AndEntry(top.result, nx.generator, top.matchers)>>])

(* next(g), the frame of g being number `depth` on the call stack *)
Pump(g, depth, root) ==
    IF g.kind = "Finished" THEN Exhausted
    ELSE IF depth > MaxDepth THEN Raises
    ELSE CASE g.kind = "Or" -> PumpOr(g, depth, root)
           [] g.kind = "And" -> PumpAnd(g, depth, root)
           [] g.kind = "Leaf" ->
                  IF g.rest = <<>> THEN Exhausted
                  ELSE Yields(Head(g.rest), [g EXCEPT !.rest = Tail(g.rest)])

RecurInit ==
    /\ stream \in Streams
    /\ matcher \in {LeftRecursive, RightRecursive, LeftRecursiveLater}
    /\ pc = "created"
    /\ frame = [generator |-> None]
    /\ out = <<>>
    /\ origin = <<>>
    /\ core = None
    /\ parked = None

(* E(stream): Delayed.__call__ returns the generator of its target *)
RecurCall ==
    /\ matcher.kind = "Delayed" /\ matcher.matcher # None
    /\ pc = "created"
    /\ frame' = [generator |-> Some(Open(matcher, stream, matcher))]
    /\ pc' = "ready"
    /\ UNCHANGED <<core, parked, matcher, stream, out, origin>>

(* next() on that generator *)
RecurPump ==
    /\ matcher.kind = "Delayed" /\ matcher.matcher # None
    /\ pc \in {"ready", "yielded"}
    /\ LET nx == Pump(frame.generator[1], 1, matcher)
       IN  /\ frame' = [generator |-> Some(nx.generator)]
           /\ pc' = IF nx.error THEN "error" ELSE IF nx.value = None THEN "done" ELSE "yielded"
           /\ out' = IF nx.value = None THEN out ELSE Append(out, nx.value[1])
    /\ UNCHANGED <<core, parked, matcher, stream, origin>>

RecurNext == RecurCall \/ RecurPump

SpecRecur == RecurInit /\ [][RecurNext]_vars

(***************************************************************************)
(* Commit applied to a stream.  The stream is a plain string (core None),  *)
(* or carries a core without a gc handle, or a core whose gc handle counts *)
(* the calls of erase().  origin is the log of what the generator did and  *)
(* frame.calls the number of evaluations completed before this one.        *)
(***************************************************************************)
Cores == {None, Some([gc |-> None]), Some([gc |-> Some(0)])}

HasGc(c) == c # None /\ c[1].gc # None

CommitInit ==
    /\ stream \in Streams
    /\ matcher = Commit
    /\ core \in Cores
    /\ pc = "created"
    /\ frame = [calls |-> 0]
    /\ out = <<>>
    /\ origin = <<>>
    /\ parked = None

(* a body that yields without erasing *)
CommitBody_NoErase(c, s) ==
    [core |-> c, events |-> <<"yield">>, value |-> Some(Attempt(<<>>, s))]

(* stream.core.gc.erase(); yield ([], stream) -- or AttributeError, turned into ValueError *)
CommitBody(c, s) ==
    IF HasGc(c)
    THEN [core |-> Some([gc |-> Some(c[1].gc[1] + 1)]), events |-> <<"erase", "yield">>,
          value |-> Some(Attempt(<<>>, s))]
    ELSE [core |-> c, events |-> <<"raise">>, value |-> None]

(* a first next() that yields the attempt also when the body raised *)
CommitFirst_Lenient ==
    /\ matcher.kind = "Commit"
    /\ pc = "created"
    /\ LET body == CommitBody(core, stream)
       IN  /\ core' = body.core
           /\ origin' = origin \o body.events
           /\ out' = Append(out, Attempt(<<>>, stream))
           /\ pc' = "yielded"
    /\ UNCHANGED <<parked, matcher, stream, frame>>

(* the first next() *)
CommitFirst ==
    /\ matcher.kind = "Commit"
    /\ pc = "created"
    /\ LET body == CommitBody(core, stream)
       IN  /\ core' = body.core
           /\ origin' = origin \o body.events
           /\ out' = IF body.value = None THEN out ELSE Append(out, body.value[1])
           /\ pc' = IF body.value = None THEN "error" ELSE "yielded"
    /\ UNCHANGED <<parked, matcher, stream, frame>>

(* a further next(): the end of the try block *)
CommitResume ==
    /\ matcher.kind = "Commit"
    /\ pc = "yielded"
    /\ pc' = "done"
    /\ UNCHANGED <<core, parked, matcher, stream, frame, out, origin>>

(* the matcher applied once more to the same stream *)
CommitCall ==
    /\ matcher.kind = "Commit"
    /\ pc \in {"done", "error"}
    /\ frame.calls + 1 < MaxOps
    /\ frame' = [calls |-> frame.calls + 1]
    /\ pc' = "created"
    /\ out' = <<>>
    /\ UNCHANGED <<core, parked, matcher, stream, origin>>

CommitNext == CommitFirst \/ CommitResume \/ CommitCall

SpecCommit == CommitInit /\ [][CommitNext]_vars

(***************************************************************************)
(* KApply(child, function) applied to a stream; m ^ msg is                 *)
(* KApply(m, raise_error(msg)).  Nothing runs until the first next().      *)
(***************************************************************************)
Functions == {"raise_error", "join"}

KApplyInit ==
    /\ stream \in Streams
    /\ matcher \in {KApply(m, f, FALSE) : m \in Children \cup {AnyB}, f \in Functions}
    /\ pc = "created"
    /\ frame = [generator |-> None]
    /\ out = <<>>
    /\ origin = <<>>
    /\ core = None
    /\ parked = None

(* one round of `for (results, stream_out) in self.__matcher(stream_in)` up to its yield;
   the first next() opens the child's generator *)
KApplyStep ==
    /\ matcher.kind = "KApply"
    /\ pc \in {"created", "yielded"}
    /\ LET generator == IF pc = "created" THEN Generator(Attempts(matcher.matcher, stream))
                        ELSE frame.generator[1]
           nx == GenNext(generator)
           y == KApplyResult(matcher, nx.value[1][1], nx.value[1][2])
       IN  /\ frame' = [generator |-> Some(nx.generator)]
           /\ IF nx.value = None
              THEN pc' = "done" /\ out' = out
              ELSE IF nx.value[1] = Raised \/ y = Raised
              THEN pc' = "error" /\ out' = out
              ELSE pc' = "yielded" /\ out' = Append(out, y)
           (* origin is the log of the calls of the function *)
           /\ origin' = IF nx.value # None /\ nx.value[1] # Raised
                        THEN Append(origin, "call") ELSE origin
    /\ UNCHANGED <<core, parked, matcher, stream>>

KApplyNext == KApplyStep

SpecKApply == KApplyInit /\ [][KApplyNext]_vars

(***************************************************************************)
(* Apply(child, function, raw, args) applied to a stream: m * f is         *)
(* Apply(m, f, args=True), Drop(m) and ~m are Apply(m, lambda l: [],       *)
(* raw=True).  The children have result lists of length 0, 1 and 2.        *)
(***************************************************************************)
AnyAny == And(<<Any(None), Any(None)>>)

ApplyChildren == Children \cup {AnyB, AnyAny}

ApplyInit ==
    /\ stream \in Streams
    /\ matcher \in {Apply(m, "f", FALSE, TRUE) : m \in ApplyChildren}
                   \cup {Apply(m, "join", FALSE, FALSE) : m \in ApplyChildren}
                   \cup {Drop(m) : m \in ApplyChildren}
    /\ pc = "created"
    /\ frame = [generator |-> None]
    /\ out = <<>>
    /\ origin = <<>>
    /\ core = None
    /\ parked = None

(* one round of `for (results, stream) in self.__matcher(stream)` up to its yield; the
   first next() opens the child's generator *)
ApplyStep ==
    /\ matcher.kind = "Apply"
    /\ pc \in {"created", "yielded"}
    /\ LET generator == IF pc = "created" THEN Generator(Attempts(matcher.matcher, stream))
                        ELSE frame.generator[1]
           nx == GenNext(generator)
           y == ApplyResult(matcher, nx.value[1][1], nx.value[1][2])
       IN  /\ frame' = [generator |-> Some(nx.generator)]
           /\ IF nx.value = None
              THEN pc' = "done" /\ out' = out
              ELSE IF nx.value[1] = Raised \/ y = Raised
              THEN pc' = "error" /\ out' = out
              ELSE pc' = "yielded" /\ out' = Append(out, y)
    /\ UNCHANGED <<core, parked, matcher, stream, origin>>

ApplyNext == ApplyStep

SpecApply == ApplyInit /\ [][ApplyNext]_vars

(***************************************************************************)
(* Any(restrict) applied to a stream: restrict is absent or a collection   *)
(* of tokens, the empty one included.  The first next() runs to the yield  *)
(* or to the end, the second resumes after the yield.                      *)
(***************************************************************************)
Restrictions == {None} \cup {Some(r) : r \in SUBSET Chars}

AnyInit ==
    /\ stream \in Streams
    /\ matcher \in {Any(r) : r \in Restrictions}
    /\ pc = "created"
    /\ frame = [generator |-> None]
    /\ out = <<>>
    /\ origin = <<>>
    /\ core = None
    /\ parked = None

(* if stream and (not restrict or stream[0] in restrict): yield *)
AnyTest ==
    /\ matcher.kind = "Any"
    /\ pc = "created"
    /\ LET nx == GenNext(Generator(AnyCall(matcher, stream)))
       IN  /\ frame' = [generator |-> Some(nx.generator)]
           /\ IF nx.value # None
              THEN out' = Append(out, nx.value[1]) /\ pc' = "yielded"
              ELSE out' = out /\ pc' = "done"
    /\ UNCHANGED <<core, parked, matcher, stream, origin>>

(* after the yield: the end of the function *)
AnyResume ==
    /\ matcher.kind = "Any"
    /\ pc = "yielded"
    /\ pc' = "done"
    /\ UNCHANGED <<core, parked, matcher, stream, frame, out, origin>>

AnyNext == AnyTest \/ AnyResume

SpecAny == AnyInit /\ [][AnyNext]_vars

(***************************************************************************)
(* The unary ~ applied up to MaxOps times to a matcher, which is then      *)
(* applied to the stream.  origin is the log of the operands: origin[i] is *)
(* the matcher the i-th ~ was applied to.                                  *)
(***************************************************************************)
(* a ~ on a Lookahead that returns it unchanged *)
LookaheadInvert_Same(m) == Lookahead(m.matcher, m.negated)

(* Lookahead.__invert__ *)
LookaheadInvert(m) == Lookahead(m.matcher, ~m.negated)

(* BaseMatch.__invert__ *)
BaseMatchInvert(m) == Drop(m)

(* ~m: the method of the class of m *)
Invert(m) == IF m.kind = "Lookahead" THEN LookaheadInvert(m) ELSE BaseMatchInvert(m)

InvertInit ==
    /\ stream \in Streams
    /\ matcher \in {Lookahead(m, n) : m \in Children \cup {AnyB}, n \in BOOLEAN}
                  \cup {AnyA, ShortLong, Empty}
    /\ pc = "operand"
    /\ frame = [generator |-> None]
    /\ out = <<>>
    /\ origin = <<>>
    /\ core = None
    /\ parked = None

(* matcher = ~matcher *)
InvertOp ==
    /\ pc = "operand"
    /\ Len(origin) < MaxOps
    /\ matcher' = Invert(matcher)
    /\ origin' = Append(origin, matcher)
    /\ UNCHANGED <<core, parked, stream, pc, frame, out>>

(* matcher(stream), which returns the generator *)
InvertCall ==
    /\ pc = "operand"
    /\ matcher.kind \in {"Lookahead", "Apply"}
    /\ pc' = "created"
    /\ UNCHANGED <<core, parked, matcher, stream, frame, out, origin>>

InvertNext == InvertOp \/ InvertCall \/ LookaheadNext \/ ApplyNext

SpecInvert == InvertInit /\ [][InvertNext]_vars

(***************************************************************************)
(* NAMESPACE, the one Namespace object, used by two threads.  A dict is an *)
(* object on the heap (frame.heap, addressed by its index; frame.live are  *)
(* the addresses in use, and a dict no stack holds is gone) and a stack is *)
(* a list of such addresses, one list for each thread that has touched the *)
(* object (frame.stack); a dict is a function from the names to "absent",  *)
(* "None" or a value.  The programs pair every pop or exit with a push or  *)
(* entry of theirs: origin[t] is the list of the scopes thread t has open, *)
(* each with what current() returned before it was opened; parked[t] is    *)
(* the scope t has just closed, until its next operation; pc is the thread *)
(* that moved.                                                             *)
(***************************************************************************)
Threads == {"main", "worker"}

Names == {"+", "&"}

EmptyDict == [n \in Names |-> "absent"]

(* the values the programs bind *)
Values == {"f"}

(* the dicts given to push: a name is not in it, or is there with None or with a value *)
Extras == [Names -> {"absent", "None"} \cup Values]

(* a thread-local object whose attributes are those of the main thread for every thread *)
Own_Main(t) == "main"

(* class Namespace(local): a thread sees the attributes it has set itself *)
Own(t) == t

(* the address of a new dict *)
Alloc(ns) == CHOOSE i \in 1..MaxFrames : i \notin ns.live /\ \A j \in 1..(i - 1) : j \in ns.live

(* the first touch of the object by a thread runs __init__: self.__stack = [{}] *)
NamespaceLocal(ns, t) ==
    IF ns.stack[Own(t)] # None THEN ns
    ELSE [heap |-> [ns.heap EXCEPT ![Alloc(ns)] = EmptyDict],
          live |-> ns.live \cup {Alloc(ns)},
          stack |-> [ns.stack EXCEPT ![Own(t)] = Some(<<Alloc(ns)>>)]]

(* self.__stack of the thread *)
NamespaceStack(ns, t) == NamespaceLocal(ns, t).stack[Own(t)][1]

(* current(): the address of the last dict of the stack *)
NamespaceCurrent(ns, t) == NamespaceStack(ns, t)[Len(NamespaceStack(ns, t))]

(* the dict current() returns, as a value: that of a thread yet to touch the object is
   the {} its __init__ will make *)
View(ns, t) ==
    IF ns.stack[Own(t)] = None THEN EmptyDict ELSE ns.heap[NamespaceCurrent(ns, t)]

(* get(name, default) *)
NamespaceGet(ns, t, name, default) ==
    IF View(ns, t)[name] = "absent" THEN default ELSE View(ns, t)[name]

(* set(name, value) *)
NamespaceSet(ns, t, name, value) ==
    LET l == NamespaceLocal(ns, t)
    IN  [l EXCEPT !.heap[NamespaceCurrent(ns, t)][name] = value]

(* set_opt(name, value) *)
NamespaceSetOpt(ns, t, name, value) ==
    IF value # "None" THEN NamespaceSet(ns, t, name, value) ELSE ns

RECURSIVE NamespaceExtend(_, _, _, _)
(* for name in extra: self.set_opt(name, extra[name]) *)
NamespaceExtend(ns, t, extra, names) ==
    IF names = {} THEN ns
    ELSE LET name == CHOOSE n \in names : TRUE
         IN  NamespaceExtend(NamespaceSetOpt(ns, t, name, extra[name]), t, extra,
                             names \ {name})

(* a push that appends the current dict itself *)
NamespacePush_Alias(ns, t, extra) ==
    LET l == NamespaceLocal(ns, t)
        pushed == [l EXCEPT !.stack[Own(t)] = Some(Append(NamespaceStack(ns, t),
                                                          NamespaceCurrent(ns, t)))]
    IN  NamespaceExtend(pushed, t, extra, {n \in Names : extra[n] # "absent"})

(* push(extra): a copy of the current dict is appended, then extended *)
NamespacePush(ns, t, extra) ==
    LET l == NamespaceLocal(ns, t)
        pushed == [heap |-> [l.heap EXCEPT ![Alloc(l)] = View(l, t)],
                   live |-> l.live \cup {Alloc(l)},
                   stack |-> [l.stack EXCEPT ![Own(t)] =
                                 Some(Append(NamespaceStack(ns, t), Alloc(l)))]]
    IN  NamespaceExtend(pushed, t, extra, {n \in Names : extra[n] # "absent"})

(* the addresses some stack holds *)
Held(stack) ==
    UNION {{stack[u][1][i] : i \in 1..Len(stack[u][1])} : u \in {v \in Threads : stack[v] # None}}

(* pop(): the last dict leaves the stack, and the heap when no stack holds it *)
NamespacePop(ns, t) ==
    LET l == NamespaceLocal(ns, t)
        stack == [l.stack EXCEPT ![Own(t)] =
                     Some(SubSeq(NamespaceStack(ns, t), 1, Len(NamespaceStack(ns, t)) - 1))]
    IN  [heap |-> [i \in 1..MaxFrames |-> IF i \in Held(stack) THEN l.heap[i] ELSE EmptyDict],
         live |-> Held(stack),
         stack |-> stack]

(* NAMESPACE = Namespace(), at import in the main thread *)
NamespaceInit ==
    /\ matcher = [kind |-> "Namespace"]
    /\ stream = <<>>
    /\ pc = "main"
    /\ frame = NamespaceLocal([heap |-> [i \in 1..MaxFrames |-> EmptyDict], live |-> {},
                               stack |-> [t \in Threads |-> None]], "main")
    /\ out = <<>>
    /\ origin = [t \in Threads |-> <<>>]
    /\ core = None
    /\ parked = [t \in Threads |-> None]

(* the dicts a step of the thread may need *)
Room(t, n) == Cardinality(frame.live) + (IF frame.stack[Own(t)] = None THEN 1 ELSE 0) + n <= MaxFrames

(* the scope opened by a push or by the entry of a with block *)
Opened(t) ==
    /\ origin' = [origin EXCEPT ![t] = Append(@, [before |-> View(frame, t)])]
    /\ parked' = [parked EXCEPT ![t] = None]
    /\ pc' = t
    /\ UNCHANGED <<core, matcher, stream, out>>

(* the last scope closed *)
Closed(t, how) ==
    /\ origin' = [origin EXCEPT ![t] = SubSeq(@, 1, Len(@) - 1)]
    /\ parked' = [parked EXCEPT ![t] =
                     Some([before |-> origin[t][Len(origin[t])].before,
                           changed |-> View(frame, t) # origin[t][Len(origin[t])].before,
                           how |-> how])]
    /\ pc' = t
    /\ UNCHANGED <<core, matcher, stream, out>>

(* NAMESPACE.push(extra) *)
Push(t) ==
    /\ Room(t, 1)
    /\ \E extra \in Extras : frame' = NamespacePush(frame, t, extra)
    /\ Opened(t)

(* with NAMESPACE: __enter__ *)
Enter(t) ==
    /\ Room(t, 1)
    /\ frame' = NamespacePush(frame, t, EmptyDict)
    /\ Opened(t)

(* NAMESPACE.set(name, value) *)
Set(t) ==
    /\ Room(t, 0)
    /\ \E name \in Names, value \in Values : frame' = NamespaceSet(frame, t, name, value)
    /\ parked' = [parked EXCEPT ![t] = None]
    /\ pc' = t
    /\ UNCHANGED <<core, matcher, stream, out, origin>>

(* NAMESPACE.pop(), for the last scope opened *)
Pop(t) ==
    /\ origin[t] # <<>>
    /\ frame' = NamespacePop(frame, t)
    /\ Closed(t, "pop")

(* the end of the with block, or an exception that leaves it: __exit__ *)
Exit(t) ==
    /\ origin[t] # <<>>
    /\ frame' = NamespacePop(frame, t)
    /\ \E how \in {"exit", "raise"} : Closed(t, how)

NamespaceNext == \E t \in Threads : Push(t) \/ Enter(t) \/ Set(t) \/ Pop(t) \/ Exit(t)

SpecNamespace == NamespaceInit /\ [][NamespaceNext]_vars

(***************************************************************************)
(* One Namespace under calls in any order, a pop or an exit with no push   *)
(* or entry before it included.  One thread calls, so frame.stack is the   *)
(* list self.__stack with the dicts themselves in it; pc is how the last   *)
(* call ended, "returned" or the name of the exception it raised, and      *)
(* parked is the name of that call.                                        *)
(***************************************************************************)
(* current(): self.__stack[-1] *)
StackCurrent(stack) ==
    IF Len(stack) = 0 THEN [raised |-> "IndexError", value |-> EmptyDict]
    ELSE [raised |-> "returned", value |-> stack[Len(stack)]]

(* set(name, value): self.current()[name] = value *)
StackSet(stack, name, value) ==
    IF StackCurrent(stack).raised # "returned"
    THEN [raised |-> StackCurrent(stack).raised, stack |-> stack]
    ELSE [raised |-> "returned", stack |-> [stack EXCEPT ![Len(stack)][name] = value]]

(* get(name, default): self.current().get(name, default) *)
StackGet(stack, name, default) ==
    IF StackCurrent(stack).raised # "returned"
    THEN [raised |-> StackCurrent(stack).raised, value |-> default]
    ELSE [raised |-> "returned",
          value |-> IF StackCurrent(stack).value[name] = "absent" THEN default
                    ELSE StackCurrent(stack).value[name]]

RECURSIVE StackExtend(_, _, _)
(* for name in extra: self.set_opt(name, extra[name]) *)
StackExtend(stack, extra, names) ==
    IF names = {} THEN stack
    ELSE LET name == CHOOSE n \in names : TRUE
         IN  StackExtend(IF extra[name] # "None" THEN StackSet(stack, name, extra[name]).stack
                         ELSE stack,
                         extra, names \ {name})

(* push(extra): current() is evaluated before the append *)
StackPush(stack, extra) ==
    IF StackCurrent(stack).raised # "returned"
    THEN [raised |-> StackCurrent(stack).raised, stack |-> stack]
    ELSE [raised |-> "returned",
          stack |-> StackExtend(Append(stack, StackCurrent(stack).value), extra,
                                {n \in Names : extra[n] # "absent"})]

(* pop(): self.__stack.pop(-1) *)
StackPop(stack) ==
    IF Len(stack) = 0 THEN [raised |-> "IndexError", stack |-> stack]
    ELSE [raised |-> "returned", stack |-> SubSeq(stack, 1, Len(stack) - 1)]

(* Namespace(): self.__stack = [{}] *)
StackInit ==
    /\ matcher = [kind |-> "Namespace"]
    /\ stream = <<>>
    /\ pc = "returned"
    /\ frame = [stack |-> <<EmptyDict>>]
    /\ out = <<>>
    /\ origin = <<>>
    /\ core = None
    /\ parked = "__init__"

(* the call has ended with the stack and the outcome of r *)
StackCalled(r) ==
    /\ frame' = [stack |-> r.stack]
    /\ pc' = r.raised
    /\ UNCHANGED <<matcher, stream, out, origin, core>>

(* ns.push(extra) *)
CallPush ==
    /\ Len(frame.stack) < MaxFrames
    /\ \E extra \in Extras : StackCalled(StackPush(frame.stack, extra))
    /\ parked' = "push"

(* with ns: __enter__ *)
CallEnter ==
    /\ Len(frame.stack) < MaxFrames
    /\ StackCalled(StackPush(frame.stack, EmptyDict))
    /\ parked' = "__enter__"

(* ns.pop() *)
CallPop ==
    /\ StackCalled(StackPop(frame.stack))
    /\ parked' = "pop"

(* the end of a with block: __exit__ *)
CallExit ==
    /\ StackCalled(StackPop(frame.stack))
    /\ parked' = "__exit__"

(* ns.current() *)
CallCurrent ==
    /\ StackCalled([raised |-> StackCurrent(frame.stack).raised, stack |-> frame.stack])
    /\ parked' = "current"

(* ns.get(name, None) *)
CallGet ==
    /\ \E name \in Names :
           StackCalled([raised |-> StackGet(frame.stack, name, "None").raised,
                        stack |-> frame.stack])
    /\ parked' = "get"

(* ns.set(name, value) *)
CallSet ==
    /\ \E name \in Names, value \in Values : StackCalled(StackSet(frame.stack, name, value))
    /\ parked' = "set"

StackNext == CallPush \/ CallEnter \/ CallPop \/ CallExit \/ CallCurrent \/ CallGet \/ CallSet

SpecStack == StackInit /\ [][StackNext]_vars

(***************************************************************************)
(* A CircularFifo(size) under append, pop and iteration.  frame holds the  *)
(* three attributes (the buffer is indexed from 0 in the code and from 1   *)
(* here); pc is how the last operation ended, out what it returned (for an *)
(* iteration, the list of what it yielded); origin is the queue a bounded  *)
(* FIFO of that size would hold after the same operations, and parked the  *)
(* last operation with that queue as it was before.                        *)
(***************************************************************************)
Items == {"x", "y"}

(* [None] * size *)
Blank(size) == [i \in 1..size |-> "None"]

(* the last n entries of q *)
Latest(q, n) == IF Len(q) <= n THEN q ELSE SubSeq(q, Len(q) - n + 1, Len(q))

CircularInit ==
    /\ matcher = [kind |-> "CircularFifo"]
    /\ stream = <<>>
    /\ pc = "built"
    /\ \E size \in 0..MaxSize : frame = [size |-> 0, next |-> 0, buffer |-> Blank(size)]
    /\ out = <<>>
    /\ origin = <<>>
    /\ core = None
    /\ parked = [op |-> "init", arg |-> "None", before |-> <<>>]

(* CircularFifo.append: with no buffer, self.__buffer[self.__next] is out of range *)
CircularAppend(q, value) ==
    LET capacity == Len(q.buffer)
        full == q.size = capacity
    IN  IF capacity = 0
        THEN [raised |-> "IndexError", value |-> "None", fifo |-> q]
        ELSE [raised |-> "no",
              value |-> IF full THEN q.buffer[q.next + 1] ELSE "None",
              fifo |-> [size |-> IF full THEN q.size ELSE q.size + 1,
                        next |-> (q.next + 1) % capacity,
                        buffer |-> [q.buffer EXCEPT ![q.next + 1] = value]]]

(* CircularFifo.pop *)
CircularPop(q, index) ==
    IF index # 0 \/ q.size < 1
    THEN [raised |-> "IndexError", value |-> "None", fifo |-> q]
    ELSE [raised |-> "no",
          value |-> q.buffer[((q.next - q.size) % Len(q.buffer)) + 1],
          fifo |-> [q EXCEPT !.size = q.size - 1]]

(* list(fifo), by CircularFifo.__iter__: the modulus by a capacity of 0 raises *)
CircularIter(q) ==
    LET capacity == Len(q.buffer)
    IN  IF capacity = 0
        THEN [raised |-> "ZeroDivisionError", value |-> <<>>]
        ELSE [raised |-> "no",
              value |-> [k \in 1..q.size |->
                            q.buffer[((q.next - q.size + k - 1) % capacity) + 1]]]

(* how an operation ended *)
Ended(r) == IF r.raised = "no" THEN "returned" ELSE r.raised

(* fifo.append(value) *)
CAppend(value) ==
    /\ matcher.kind = "CircularFifo"
    /\ frame' = CircularAppend(frame, value).fifo
    /\ pc' = Ended(CircularAppend(frame, value))
    /\ out' = <<CircularAppend(frame, value).value>>
    /\ origin' = Latest(Append(origin, value), Len(frame.buffer))
    /\ parked' = [op |-> "append", arg |-> value, before |-> origin]
    /\ UNCHANGED <<core, matcher, stream>>

(* fifo.pop(index) *)
CPop(index) ==
    /\ matcher.kind = "CircularFifo"
    /\ frame' = CircularPop(frame, index).fifo
    /\ pc' = Ended(CircularPop(frame, index))
    /\ out' = <<CircularPop(frame, index).value>>
    /\ origin' = IF index = 0 /\ origin # <<>> THEN Tail(origin) ELSE origin
    /\ parked' = [op |-> IF index = 0 THEN "pop" ELSE "pop at", arg |-> "None", before |-> origin]
    /\ UNCHANGED <<core, matcher, stream>>

(* list(fifo) *)
CIter ==
    /\ matcher.kind = "CircularFifo"
    /\ pc' = Ended(CircularIter(frame))
    /\ out' = CircularIter(frame).value
    /\ parked' = [op |-> "iter", arg |-> "None", before |-> origin]
    /\ UNCHANGED <<core, matcher, stream, frame, origin>>

CircularNext ==
    \/ \E value \in Items : CAppend(value)
    \/ \E index \in {0, 1} : CPop(index)
    \/ CIter

SpecCircular == CircularInit /\ [][CircularNext]_vars

(***************************************************************************)
(* A FastFifo under append and pop, with at most MaxQueue entries.  frame  *)
(* holds the two lists; pc, out, origin and parked are as for the          *)
(* CircularFifo, origin being the queue an unbounded FIFO would hold.      *)
(***************************************************************************)
FastInit ==
    /\ matcher = [kind |-> "FastFifo"]
    /\ stream = <<>>
    /\ pc = "built"
    /\ frame = [front |-> <<>>, back |-> <<>>]
    /\ out = <<>>
    /\ origin = <<>>
    /\ core = None
    /\ parked = [op |-> "init", arg |-> "None", before |-> <<>>]

(* list.reverse() *)
Reversed(l) == [i \in 1..Len(l) |-> l[Len(l) + 1 - i]]

(* FastFifo.append *)
FastAppend(q, value) == [q EXCEPT !.front = Append(q.front, value)]

(* the front taken for the back as it is *)
Refill_Unturned(q) ==
    IF q.back = <<>> THEN [front |-> <<>>, back |-> q.front] ELSE q

(* if not self.__back: the front, reversed, becomes the back *)
Refill(q) ==
    IF q.back = <<>> THEN [front |-> <<>>, back |-> Reversed(q.front)] ELSE q

(* FastFifo.pop *)
FastPop(q, index) ==
    IF index # 0
    THEN [raised |-> "IndexError", value |-> "None", fifo |-> q]
    ELSE IF Refill(q).back = <<>>
    THEN [raised |-> "IndexError", value |-> "None", fifo |-> Refill(q)]
    ELSE [raised |-> "no",
          value |-> Refill(q).back[Len(Refill(q).back)],
          fifo |-> [Refill(q) EXCEPT !.back = SubSeq(@, 1, Len(@) - 1)]]

(* FastFifo.__len__ *)
FastLen(q) == Len(q.front) + Len(q.back)

(* fifo.append(value) *)
FAppend(value) ==
    /\ matcher.kind = "FastFifo"
    /\ FastLen(frame) < MaxQueue
    /\ frame' = FastAppend(frame, value)
    /\ pc' = "returned"
    /\ out' = <<"None">>
    /\ origin' = Append(origin, value)
    /\ parked' = [op |-> "append", arg |-> value, before |-> origin]
    /\ UNCHANGED <<core, matcher, stream>>

(* fifo.pop(index) *)
FPop(index) ==
    /\ matcher.kind = "FastFifo"
    /\ frame' = FastPop(frame, index).fifo
    /\ pc' = Ended(FastPop(frame, index))
    /\ out' = <<FastPop(frame, index).value>>
    /\ origin' = IF index = 0 /\ origin # <<>> THEN Tail(origin) ELSE origin
    /\ parked' = [op |-> IF index = 0 THEN "pop" ELSE "pop at", arg |-> "None", before |-> origin]
    /\ UNCHANGED <<core, matcher, stream>>

FastNext ==
    \/ \E value \in Items : FAppend(value)
    \/ \E index \in {0, 1} : FPop(index)

SpecFast == FastInit /\ [][FastNext]_vars

(***************************************************************************)
(* Composites over children that raise.  Boom is AnyA ^ msg: it raises on  *)
(* a stream that starts with "a" and has no attempt otherwise; BOrBoom     *)
(* delivers "b" and raises on "a".                                         *)
(***************************************************************************)
Boom == KApply(AnyA, "raise_error", FALSE)

BOrBoom == Or(<<AnyB, Boom>>)

RaiseChildren == {Boom, BOrBoom, Any(None)}

RaiseInit ==
    /\ stream \in Streams
    /\ pc = "created"
    /\ out = <<>>
    /\ origin = <<>>
    /\ core = None
    /\ parked = None
    /\ \/ /\ \E ms \in UNION {[1..k -> RaiseChildren] : k \in 1..2} : matcher = And(ms)
          /\ frame = [stack |-> <<>>]
       \/ /\ \E ms \in UNION {[1..k -> RaiseChildren] : k \in 1..2} : matcher = Or(ms)
          /\ frame = [index |-> 0, generator |-> None]
       \/ /\ matcher \in {Repeat(m, start, stop, d, None) :
                              m \in {Boom, BOrBoom}, start \in 0..1,
                              stop \in {None, Some(MaxCount)}, d \in Directions}
          /\ frame = [stack |-> <<>>, count2 |-> None, queue |-> <<>>, cur |-> None,
                      generator |-> None, item |-> None, all |-> <<>>, keys |-> <<>>, pos |-> 0, dropped |-> <<>>]

RaiseNext == AndNext \/ OrNext \/ RepeatNext

SpecRaise == RaiseInit /\ [][RaiseNext]_vars

(***************************************************************************)
(* close() on a generator suspended at a yield.  Or, KApply and            *)
(* __with_depth hold the child's generator in the iterator of a `for` and  *)
(* have no try/finally: GeneratorExit leaves the body and the child's      *)
(* generator is closed only if the interpreter finalizes it then, which    *)
(* Python does not promise (it depends on reference counting and on who    *)
(* else holds the generator).  Both outcomes are modelled.                 *)
(***************************************************************************)
OrClose ==
    /\ matcher.kind = "Or"
    /\ pc = "yielded"
    /\ \E finalized \in BOOLEAN :
          frame' = [frame EXCEPT !.generator = Some(Dropped(frame.generator[1], finalized))]
    /\ pc' = "closed"
    /\ UNCHANGED <<core, parked, matcher, stream, out, origin>>

KApplyClose ==
    /\ matcher.kind = "KApply"
    /\ pc = "yielded"
    /\ \E finalized \in BOOLEAN :
          frame' = [frame EXCEPT !.generator = Some(Dropped(frame.generator[1], finalized))]
    /\ pc' = "closed"
    /\ UNCHANGED <<core, parked, matcher, stream, out, origin>>

(* __breadth_first is closed at its yield; __with_depth, which it holds the same way,
   stands at the yield before the loop (no child open) or at the yield in the `for` *)
WithDepthClose ==
    /\ matcher.kind = "Repeat" /\ matcher.direction > 0
    /\ pc \in {"yielded_start", "yielded_for"}
    /\ \E finalized \in BOOLEAN :
          frame' = [frame EXCEPT !.generator =
                       IF frame.generator = None THEN None
                       ELSE Some(Dropped(frame.generator[1], finalized))]
    /\ pc' = "closed"
    /\ UNCHANGED <<core, parked, matcher, stream, out, origin>>

CloseInit ==
    \/ OrInit
    \/ KApplyInit
    \/ RepeatInit /\ matcher.direction > 0 /\ matcher.given.separator = None

CloseNext ==
    \/ OrOuter
    \/ OrInner
    \/ OrClose
    \/ KApplyStep
    \/ KApplyClose
    \/ WithDepthStart
    \/ WithDepthResumeStart
    \/ WithDepthWhile
    \/ WithDepthFor
    \/ WithDepthResumeFor
    \/ WithDepthClose

SpecClose == CloseInit /\ [][CloseNext]_vars

(***************************************************************************)
(* Two generators of one matcher object.  The one that runs is in pc,      *)
(* frame, out, origin and stream; the other is parked, suspended between   *)
(* two next() requests.  Switch hands the turn to the parked one: the      *)
(* caller may ask either generator for its next attempt at any time.       *)
(***************************************************************************)
SharedChildren == {Any(None), ShortLong, LongShort}

Suspended(s, p, f, o, g) == [stream |-> s, pc |-> p, frame |-> f, out |-> o, origin |-> g]

SharedInit ==
    /\ stream \in Streams
    /\ pc = "created"
    /\ out = <<>>
    /\ origin = <<>>
    /\ core = None
    /\ \/ /\ \E ms \in UNION {[1..k -> SharedChildren] : k \in 1..2} : matcher = And(ms)
          /\ frame = [stack |-> <<>>]
       \/ /\ matcher \in {Repeat(m, start, stop, 0, None) :
                              m \in {Any(None), ShortLong}, start \in 0..1,
                              stop \in {None, Some(MaxCount)}}
          /\ frame = [stack |-> <<>>, count2 |-> None, queue |-> <<>>, cur |-> None,
                      generator |-> None, item |-> None, all |-> <<>>, keys |-> <<>>, pos |-> 0, dropped |-> <<>>]
    /\ \E s \in {stream, Advance(stream, 1)} :
          parked = Some(Suspended(s, "created", frame, <<>>, <<>>))

(* the locals of a generator as if they were attributes of the matcher: the generator
   that resumes finds them as the other left them *)
Resumed_Shared(mine, theirs) == theirs

(* the locals a generator finds when it resumes: stack and count2 are local variables of
   the generator function, so its own, whatever the other generator did meanwhile *)
Resumed(mine, theirs) == mine

Switch ==
    /\ parked # None
    /\ pc \in {"created", "yielded", "done", "error"}
    /\ parked' = Some(Suspended(stream, pc, frame, out, origin))
    /\ stream' = parked[1].stream
    /\ pc' = parked[1].pc
    /\ frame' = Resumed(parked[1].frame, frame)
    /\ out' = parked[1].out
    /\ origin' = parked[1].origin
    /\ UNCHANGED <<core, matcher>>

SharedNext == AndStart \/ AndStep \/ DepthFirstStart \/ DepthFirstStep \/ Switch

SpecShared == SharedInit /\ [][SharedNext]_vars

(***************************************************************************)
(* Repeat(m, start, stop, 1, sep) run to its end on a stream, and then     *)
(* Repeat(m, start, stop, -1, sep) on the same stream: Twin parks what the *)
(* first has delivered (with the count of each attempt in origin) and      *)
(* starts the second.                                                      *)
(***************************************************************************)
PairInit ==
    /\ RepeatInit
    /\ matcher.direction = 1

Twin ==
    /\ matcher.kind = "Repeat" /\ matcher.direction = 1
    /\ parked = None
    /\ pc \in {"done", "error"}
    /\ parked' = Some(Suspended(stream, pc, frame, out, origin))
    /\ matcher' = Repeat(matcher.given.matcher, matcher.start, matcher.stop, 0 - 1,
                         matcher.given.separator)
    /\ pc' = "created"
    /\ frame' = [stack |-> <<>>, count2 |-> None, queue |-> <<>>, cur |-> None,
                 generator |-> None, item |-> None, all |-> <<>>, keys |-> <<>>,
                 pos |-> 0, dropped |-> <<>>]
    /\ out' = <<>>
    /\ origin' = <<>>
    /\ UNCHANGED <<core, stream>>

PairNext ==
    \/ WithDepthStart
    \/ WithDepthResumeStart
    \/ WithDepthWhile
    \/ WithDepthFor
    \/ WithDepthResumeFor
    \/ ExhaustiveDrain
    \/ Twin

SpecPair == PairInit /\ [][PairNext]_vars

(***************************************************************************)
(* Trace(child) applied to a stream: the _TraceDecorator around the        *)
(* child's generator, asked for its next value again and again.  The       *)
(* stream is a plain string (core None) or has a core whose bb holds the   *)
(* trace switch.  origin is the log of what the last request did: "before" *)
(* and "after" at the entry of the two hooks, "on" and "off" for the       *)
(* switch, "advance" for next() on the child's generator, "raise" for the  *)
(* ValueError of a hook.                                                   *)
(***************************************************************************)
TraceCores == {None, Some([bb |-> FALSE]), Some([bb |-> TRUE])}

Trace(m) == [kind |-> "Trace", matcher |-> m]

TraceInit ==
    /\ stream \in Streams
    /\ matcher \in {Trace(m) : m \in Children \cup {Boom}}
    /\ core \in TraceCores
    /\ pc = "created"
    /\ frame = [generator |-> Generator(Attempts(matcher.matcher, stream))]
    /\ out = <<>>
    /\ origin = <<>>
    /\ parked = None

(* stream.core.bb.switch(flag) *)
BbSwitch(c, flag) == Some([bb |-> flag])

(* _TraceDecorator._before and _after: the switch is set, or ValueError when the stream
   has no core *)
TraceHook(c, hook, flag) ==
    IF c = None
    THEN [raised |-> TRUE, core |-> c, events |-> <<hook, "raise">>]
    ELSE [raised |-> FALSE, core |-> BbSwitch(c, flag),
          events |-> <<hook, IF flag THEN "on" ELSE "off">>]

(* a __next__ without the finally clause: _after runs only after a value *)
DecoratorNext_NoFinally(g, c) ==
    LET before == TraceHook(c, "before", TRUE)
        nx == GenNext(g)
        after == TraceHook(before.core, "after", FALSE)
    IN  IF before.raised
        THEN [pc |-> "error", value |-> None, generator |-> g, core |-> before.core,
              events |-> before.events]
        ELSE IF nx.value = None \/ nx.value[1] = Raised
        THEN [pc |-> IF nx.value = None THEN "done" ELSE "error", value |-> None,
              generator |-> nx.generator, core |-> before.core,
              events |-> before.events \o <<"advance">>]
        ELSE [pc |-> "yielded", value |-> nx.value, generator |-> nx.generator,
              core |-> after.core, events |-> before.events \o <<"advance">> \o after.events]

(* BaseGeneratorDecorator.__next__ with the hooks of _TraceDecorator:
   try: _before(); return _value(next(generator)) finally: _after() *)
DecoratorNext(g, c) ==
    LET before == TraceHook(c, "before", TRUE)
        nx == IF before.raised THEN [value |-> None, generator |-> g] ELSE GenNext(g)
        advance == IF before.raised THEN <<>> ELSE <<"advance">>
        after == TraceHook(before.core, "after", FALSE)
    IN  [pc |-> IF before.raised \/ after.raised THEN "error"
                ELSE IF nx.value = None THEN "done"
                ELSE IF nx.value[1] = Raised THEN "error"
                ELSE "yielded",
         value |-> IF before.raised \/ after.raised
                      \/ (nx.value # None /\ nx.value[1] = Raised)
                   THEN None ELSE nx.value,
         generator |-> nx.generator,
         core |-> after.core,
         events |-> before.events \o advance \o after.events]

(* next(decorator) *)
TraceRequest ==
    /\ matcher.kind = "Trace"
    /\ LET r == DecoratorNext(frame.generator, core)
       IN  /\ pc' = r.pc
           /\ frame' = [generator |-> r.generator]
           /\ core' = r.core
           /\ origin' = r.events
           /\ out' = IF r.value = None THEN out ELSE Append(out, r.value[1])
    /\ UNCHANGED <<parked, matcher, stream>>

TraceNext == TraceRequest

SpecTrace == TraceInit /\ [][TraceNext]_vars

(***************************************************************************)
(* Every matcher of the model applied to a stream.                         *)
(***************************************************************************)
AllInit ==
    \/ AndInit
    \/ OrInit
    \/ RepeatInit
    \/ LookaheadInit
    \/ KApplyInit
    \/ CommitInit
    \/ DelayedInit

AllNext ==
    \/ AndNext
    \/ OrNext
    \/ RepeatNext
    \/ LookaheadNext
    \/ KApplyNext
    \/ CommitNext
    \/ DelayedNext

SpecAll == AllInit /\ [][AllNext]_vars

(***************************************************************************)
(* Helpers of the properties.                                              *)
(***************************************************************************)
IsPrefix(p, q) == Len(p) <= Len(q) /\ p = SubSeq(q, 1, Len(p))

NonDecreasing(ns) == \A i \in 1..Len(ns) - 1 : ns[i] <= ns[i + 1]

NonIncreasing(ns) == \A i \in 1..Len(ns) - 1 : ns[i] >= ns[i + 1]

(* the attempts of out that origin marks with n, in the order of their delivery *)
RECURSIVE Marked(_, _, _)
Marked(o, g, n) ==
    IF o = <<>> THEN <<>>
    ELSE (IF Head(g) = n THEN <<Head(o)>> ELSE <<>>) \o Marked(Tail(o), Tail(g), n)

(* Every chain (r1, s1), ..., (rk, sk) with (ri, si) an attempt of mi on s(i-1), as
   (r1 + ... + rk, sk), the chains through an earlier attempt of a child before those
   through a later one. *)
RECURSIVE AndChains(_, _)
AndChains(ms, s) ==
    IF ms = <<>> THEN <<Attempt(<<>>, s)>>
    ELSE LET firsts == Attempts(ms[1], s)
             through(a) == LET rest == AndChains(Tail(ms), a[2])
                           IN  [j \in 1..Len(rest) |-> Attempt(a[1] \o rest[j][1], rest[j][2])]
         IN  ConcatAll([i \in 1..Len(firsts) |-> through(firsts[i])])

Range(f) == {f[i] : i \in DOMAIN f}

(* The attempts of one more occurrence of child on s after n others: the child alone for
   the first occurrence or without a separator, otherwise every attempt of the separator
   followed by every attempt of the child on what the separator left. *)
Occurrence(child, sep, n, s) ==
    IF n = 0 \/ sep = None THEN Attempts(child, s)
    ELSE LET seps == Attempts(sep[1], s)
             after(q) == LET cs == Attempts(child, q[2])
                         IN  [j \in 1..Len(cs) |-> Attempt(q[1] \o cs[j][1], cs[j][2])]
         IN  ConcatAll([i \in 1..Len(seps) |-> after(seps[i])])

(* The attempts built from exactly n consecutive occurrences, starting on s. *)
RECURSIVE RepeatChains(_, _, _, _)
RepeatChains(child, sep, s, n) ==
    IF n = 0 THEN <<Attempt(<<>>, s)>>
    ELSE LET shorter == RepeatChains(child, sep, s, n - 1)
             longer(c) == LET os == Occurrence(child, sep, n - 1, c[2])
                          IN  [j \in 1..Len(os) |-> Attempt(c[1] \o os[j][1], os[j][2])]
         IN  ConcatAll([i \in 1..Len(shorter) |-> longer(shorter[i])])

(* attempt i of out is built from origin[i] consecutive occurrences *)
IsChain(i) ==
    out[i] \in Range(RepeatChains(matcher.given.matcher, matcher.given.separator,
                                  stream, origin[i]))

(* The chain that takes the first attempt of every occurrence until there is none or
   stop is reached, as <<count, Attempt>>. *)
RECURSIVE Greedy(_, _, _, _, _, _)
Greedy(child, sep, stop, n, acc, s) ==
    IF stop # None /\ n >= stop[1] THEN <<n, Attempt(acc, s)>>
    ELSE LET os == Occurrence(child, sep, n, s)
         IN  IF os = <<>> THEN <<n, Attempt(acc, s)>>
             ELSE Greedy(child, sep, stop, n + 1, acc \o os[1][1], os[1][2])

(* the matcher never offers a second attempt, on any stream *)
NeverBacktracks(m) == \A s \in Streams : Len(Attempts(m, s)) <= 1

(* C1: every attempt of Repeat(child, start, stop, direction, separator) is built from n
   consecutive child matches with start <= n <= stop (no upper limit when stop is unset),
   in each of the three directions. *)
C1_RepeatBounds ==
    matcher.kind = "Repeat" =>
        \A i \in 1..Len(out) :
            /\ matcher.start <= origin[i]
            /\ matcher.stop # None => origin[i] <= matcher.stop[1]
            /\ IsChain(i)

(* C2: the attempts of Repeat(m, k, k, 0) are exactly the chains of k consecutive matches
   of m: no attempt of another length is yielded and, once the sequence is exhausted,
   every such chain has been yielded once. *)
C2_ExactlyK ==
    (matcher.kind = "Repeat" /\ matcher.direction = 0 /\ matcher.stop = Some(matcher.start)) =>
        LET chains == RepeatChains(matcher.given.matcher, matcher.given.separator,
                                   stream, matcher.start)
        IN  /\ \A i \in 1..Len(out) : origin[i] = matcher.start /\ out[i] \in Range(chains)
            /\ pc = "done" => Range(out) = Range(chains) /\ Len(out) = Len(chains)

(* C3: And(m1, ..., mk), k >= 1, yields exactly the chains of attempts of its children,
   results concatenated in child order, in right-deep depth-first order: what it has
   yielded is always an initial part of that enumeration and, once exhausted, all of it. *)
C3_AndRightDeep ==
    (matcher.kind = "And" /\ matcher.matchers # <<>>) =>
        /\ IsPrefix(out, AndChains(matcher.matchers, stream))
        /\ pc = "done" => out = AndChains(matcher.matchers, stream)

(* three children, two of which backtrack, and every chain delivered *)
C3_Witness ==
    /\ matcher.kind = "And"
    /\ Len(matcher.matchers) = 3
    /\ pc = "done"
    /\ Len(out) >= 3
    /\ \E i, j \in 1..Len(out) : out[i][1] # <<>> /\ out[i][2] # out[j][2]

(* C4: Or(m1, ..., mk) yields the attempts of m1 on s, then those of m2 on s, ..., each
   child's own order kept: the alternatives' positions never decrease along the attempts,
   the attempts of alternative i are an initial part of mi(s) and, once the Or is
   exhausted, all of mi(s). *)
C4_OrStable ==
    matcher.kind = "Or" =>
        /\ NonDecreasing(origin)
        /\ \A i \in 1..Len(matcher.matchers) :
              /\ IsPrefix(Marked(out, origin, i), Attempts(matcher.matchers[i], stream))
              /\ pc = "done" => Marked(out, origin, i) = Attempts(matcher.matchers[i], stream)
        /\ \A j \in 1..Len(origin) : origin[j] \in 1..Len(matcher.matchers)

(* both alternatives delivered attempts, the first of them two *)
C4_Witness ==
    /\ matcher.kind = "Or"
    /\ Len(matcher.matchers) = 2
    /\ pc = "done"
    /\ Len(Marked(out, origin, 1)) = 2
    /\ Len(Marked(out, origin, 2)) >= 1
    /\ matcher.matchers[1] # matcher.matchers[2]

(* C6: And() with no children yields exactly one attempt ([], stream). *)
C6_EmptyAndYieldsOne ==
    (matcher.kind = "And" /\ matcher.matchers = <<>> /\ pc = "done") =>
        out = <<Attempt(<<>>, stream)>>

(* C5: Repeat(m, 0, 0, d) yields exactly one attempt ([], s) and then exhausts, in every
   direction d, without raising an error. *)
C5_ZeroRepeat ==
    (matcher.kind = "Repeat" /\ matcher.start = 0 /\ matcher.stop = Some(0)) =>
        /\ pc # "error"
        /\ IsPrefix(out, <<Attempt(<<>>, stream)>>)
        /\ pc = "done" => out = <<Attempt(<<>>, stream)>>

(* C7: with direction +1 the occurrence counts of successive attempts never decrease, and
   each attempt is built from as many occurrences as its count says. *)
C7_BreadthFirstCounts ==
    (matcher.kind = "Repeat" /\ matcher.direction = 1) =>
        /\ NonDecreasing(origin)
        /\ \A i \in 1..Len(out) : IsChain(i)

(* a child that backtracks, exhausted after attempts of several counts *)
C7_Witness ==
    /\ matcher.kind = "Repeat" /\ matcher.direction = 1
    /\ matcher.first \in {ShortLong, LongShort}
    /\ pc = "done"
    /\ Len(out) >= 4
    /\ origin[1] < origin[Len(origin)]

(* C8: with direction -1 the occurrence counts of successive attempts never increase, the
   first attempt has the highest count found, and each attempt is built from as many
   occurrences as its count says. *)
C8_ExhaustiveCounts ==
    (matcher.kind = "Repeat" /\ matcher.direction = -1) =>
        /\ NonIncreasing(origin)
        /\ \A i \in 1..Len(out) : IsChain(i)
        /\ out # <<>> => \A j \in 1..Len(frame.all) : frame.all[j].depth <= origin[1]

(* a child that backtracks, exhausted after attempts of several counts *)
C8_Witness ==
    /\ matcher.kind = "Repeat" /\ matcher.direction = -1
    /\ matcher.first \in {ShortLong, LongShort}
    /\ matcher.stop # None
    /\ pc = "done"
    /\ Len(out) >= 4
    /\ origin[1] > origin[Len(origin)]

(* C9, the attempts: the first attempt of a depth-first Repeat is the chain of first
   attempts, followed until the child fails or stop is reached; and the counts of
   successive attempts never increase when the child never offers a second attempt. *)
C9_Attempts ==
    (matcher.kind = "Repeat" /\ matcher.direction = 0) =>
        /\ out # <<>> =>
              <<origin[1], out[1]>> = Greedy(matcher.given.matcher, matcher.given.separator,
                                             matcher.stop, 0, <<>>, stream)
        /\ NeverBacktracks(matcher.given.matcher) => NonIncreasing(origin)

(* C9, backtracking: the chain is shortened (the stack loses its top entry) only when the
   generator of that entry has no further attempt to offer, or stop forbids asking it. *)
C9_Shorten ==
    (matcher.kind = "Repeat" /\ matcher.direction = 0 /\ Len(frame'.stack) < Len(frame.stack)) =>
        LET top == frame.stack[Len(frame.stack)]
        IN  \/ top.generator.rest = <<>>
            \/ matcher.stop # None /\ top.count >= matcher.stop[1]

(* C9: depth-first order of Repeat with direction 0. *)
C9_DepthFirstOrder == [](C9_Attempts) /\ [][C9_Shorten]_vars

(* a child without second attempts, followed to three occurrences and backed off to none *)
C9_Witness ==
    /\ matcher.kind = "Repeat" /\ matcher.direction = 0
    /\ NeverBacktracks(matcher.given.matcher)
    /\ pc = "done"
    /\ Len(out) >= 3
    /\ origin[1] = 3
    /\ origin[Len(origin)] = 0

(* C10: with a separator, an attempt of n occurrences is the child matched once followed
   by (separator, child) matched n-1 times, the separator's results in between, in each
   of the three directions. *)
C10_SeparatorBetween ==
    (matcher.kind = "Repeat" /\ matcher.given.separator # None) =>
        \A i \in 1..Len(out) : IsChain(i)

(* two occurrences with the separator's result between them *)
C10_Witness ==
    /\ matcher.kind = "Repeat" /\ matcher.given.separator # None
    /\ \E i \in 1..Len(out) :
          /\ origin[i] = 2
          /\ Len(out[i][1]) = 3
          /\ out[i][1][2] = <<"b">>

(* C11: Lookahead(child, negated) never consumes input and yields at most one attempt:
   once it has been asked, it has yielded ([], s) iff the child has an attempt on s
   (negated false) or has none (negated true), however many the child has. *)
C11_Lookahead ==
    matcher.kind = "Lookahead" =>
        /\ Len(out) <= 1
        /\ \A i \in 1..Len(out) : out[i] = Attempt(<<>>, stream)
        /\ pc # "created" =>
              (out # <<>> <=> (matcher.negated <=> Attempts(matcher.matcher, stream) = <<>>))

(* a positive lookahead whose child has two attempts, exhausted after its one attempt *)
C11_Witness ==
    /\ matcher.kind = "Lookahead"
    /\ ~matcher.negated
    /\ Len(Attempts(matcher.matcher, stream)) = 2
    /\ pc = "done"
    /\ out = <<Attempt(<<>>, stream)>>

(* some `+=` comes before operation i of the log *)
BoundBefore(i) == \E j \in 1..(i - 1) : origin[j].op = "iadd"

(* C12, the log: a call raises iff no += came before it, a += raises iff one did, and the
   target is that of the first +=, or None before any. *)
C12_Log ==
    matcher.kind = "Delayed" =>
        /\ \A i \in 1..Len(origin) :
              origin[i].raised <=> (IF origin[i].op = "iadd" THEN BoundBefore(i) ELSE ~BoundBefore(i))
        /\ IF \E i \in 1..Len(origin) : origin[i].op = "iadd"
           THEN matcher.matcher =
                    origin[CHOOSE i \in 1..Len(origin) : origin[i].op = "iadd" /\ ~BoundBefore(i)].matcher
           ELSE matcher.matcher = None

(* C12, the steps: a target once installed is never replaced *)
C12_Once == (matcher.kind = "Delayed" /\ matcher.matcher # None) => matcher'.matcher = matcher.matcher

(* C12: a Delayed starts unbound, raises when evaluated unbound, is bound by the first +=,
   and every later += raises and leaves the first binding in force: the target changes at
   most once over any sequence of += and evaluations. *)
C12_DelayedBindsOnce == [](C12_Log) /\ [][C12_Once]_vars

(* bound, then a second += with another matcher refused, then evaluated on the first *)
C12_Witness ==
    /\ matcher.kind = "Delayed"
    /\ Len(origin) = 3
    /\ origin[1].op = "iadd" /\ ~origin[1].raised
    /\ origin[2].op = "iadd" /\ origin[2].raised /\ origin[2].matcher # origin[1].matcher
    /\ origin[3].op = "call" /\ ~origin[3].raised
    /\ matcher.matcher = origin[1].matcher
    /\ out # <<>>

(* C13: for E = (E & Any()) | Any() bound through a Delayed, requesting the first attempt
   on a finite stream terminates without an error, and on a stream that is not empty the
   first attempt holds the tokens of the stream, all consumed. *)
C13_LeftRecursion ==
    (matcher = LeftRecursive /\ pc \notin {"created", "ready"}) =>
        /\ pc # "error"
        /\ stream # <<>> =>
              /\ out # <<>>
              /\ out[1] = Attempt([i \in 1..Len(stream) |-> <<stream[i]>>], <<>>)

(* C14: on a stream whose core exposes a gc handle, Commit yields exactly one attempt
   ([], stream); erase() has been called once for each evaluation whose first attempt was
   requested and not at all for one not yet asked; every yield comes right after an erase
   in the log, and the request that exhausts the generator erases nothing. *)
C14_CommitErasesOnce ==
    (matcher.kind = "Commit" /\ HasGc(core)) =>
        /\ pc # "error"
        /\ out = (IF pc = "created" THEN <<>> ELSE <<Attempt(<<>>, stream)>>)
        /\ core[1].gc[1] = frame.calls + (IF pc = "created" THEN 0 ELSE 1)
        /\ Len(origin) = 2 * core[1].gc[1]
        /\ \A i \in 1..Len(origin) : origin[i] = (IF i % 2 = 1 THEN "erase" ELSE "yield")

(* the second evaluation exhausted: two erases, one attempt each *)
C14_Witness ==
    /\ matcher.kind = "Commit" /\ HasGc(core)
    /\ frame.calls = 1
    /\ pc = "done"
    /\ core[1].gc[1] = 2
    /\ out = <<Attempt(<<>>, stream)>>
    /\ stream # <<>>

(* C16: m ^ msg raises the syntax error exactly when m produces an attempt, at the request
   for that attempt: before any request nothing is raised; after the first request the
   generator has raised iff m has an attempt on the stream and is exhausted without an
   error iff m has none; no attempt is ever yielded. *)
C16_RaiseOnMatch ==
    (matcher.kind = "KApply" /\ matcher.function = "raise_error") =>
        /\ out = <<>>
        /\ pc \in {"created", "error", "done"}
        /\ pc = "error" => Attempts(matcher.matcher, stream) # <<>>
        /\ pc = "done" => Attempts(matcher.matcher, stream) = <<>>

(* raised on a stream on which the child has two attempts *)
C16_Witness ==
    /\ matcher.kind = "KApply" /\ matcher.function = "raise_error"
    /\ Len(Attempts(matcher.matcher, stream)) = 2
    /\ pc = "error"

(* Repeating child from s, after n occurrences, comes to advance a child that raises:
   the child raises on s, or delivers an attempt from whose rest the same holds. *)
RECURSIVE Hits(_, _, _, _)
Hits(child, s, n, stop) ==
    /\ stop = None \/ n < stop[1]
    /\ LET os == Attempts(child, s)
       IN  \/ Raising(os)
           \/ \E i \in 1..Len(os) :
                 os[i] # Raised /\ os[i][2] # s /\ Hits(child, os[i][2], n + 1, stop)

(* C15: an error raised by a child that a composite advances propagates out of the
   composite: an And, an Or or a Repeat of any direction whose enumeration comes to
   advance a raising child never ends as if exhausted. *)
C15_ErrorsPropagate ==
    /\ (matcher.kind \in {"And", "Or"} /\ Raising(Attempts(matcher, stream))) => pc # "done"
    /\ (matcher.kind = "Repeat" /\ Hits(matcher.first, stream, 0, matcher.stop)) => pc # "done"

(* C17: closing a partially consumed sequence of an Or, a KApply or a breadth-first Repeat
   closes the child sequence it holds before close returns: once the composite is closed,
   the child's generator is closed or exhausted and has no attempt left to give. *)
C17_ClosePropagates ==
    (matcher.kind \in {"Or", "KApply", "Repeat"} /\ pc = "closed" /\ frame.generator # None) =>
        /\ frame.generator[1].state \in {"closed", "done"}
        /\ frame.generator[1].rest = <<>>

(* C18: when an And sequence is abandoned (closed at a yield, or ended by an error of a
   child), every child sequence still open is closed, the most recently opened first and
   the first child's last. *)
C18_AndClosesInReverse ==
    (matcher.kind = "And" /\ pc \in {"closed", "error"}) =>
        /\ \A i \in 1..Len(frame.stack) : frame.stack[i].generator.state = "closed"
        /\ origin = [i \in 1..Len(frame.stack) |-> Len(frame.stack) + 1 - i]

(* what a lone evaluation of m on s yields, and how it ends *)
Lone(m, s) ==
    IF m.kind = "And" THEN [out |-> AndCall(m, s), pc |-> "done"]
    ELSE LET st == DepthRun(m, DepthEnter(m, s)) IN [out |-> st.out, pc |-> st.pc]

(* a generator has yielded an initial part of the lone evaluation and, once ended, all of
   it, ending the same way *)
AsAlone(s, p, o) ==
    /\ IsPrefix(o, Lone(matcher, s).out)
    /\ p \in {"done", "error"} => o = Lone(matcher, s).out /\ p = Lone(matcher, s).pc

(* C19: two generators of the same matcher object, on the same or on different streams,
   advanced in any interleaved order, each yield the attempts of a lone evaluation of the
   matcher on their stream, in the same order. *)
C19_NoSharedState ==
    (matcher.kind \in {"And", "Repeat"} /\ parked # None) =>
        /\ AsAlone(stream, pc, out)
        /\ AsAlone(parked[1].stream, parked[1].pc, parked[1].out)

(* one generator exhausted after two attempts or more while the other, on another
   stream, stands suspended after its first of several *)
C19_Witness ==
    /\ matcher.kind \in {"And", "Repeat"} /\ parked # None
    /\ parked[1].stream # stream
    /\ pc = "done" /\ Len(out) >= 2
    /\ parked[1].pc = "yielded" /\ Len(parked[1].out) = 1
    /\ Len(Lone(matcher, parked[1].stream).out) >= 2

IsSuffix(p, q) == Len(p) <= Len(q) /\ p = SubSeq(q, Len(q) - Len(p) + 1, Len(q))

(* C20: each attempt (r, s') of a matcher built from Any, Literal, Empty, And, Or, Repeat,
   Lookahead, Delayed, Commit and KApply on a stream s has s' a suffix of s, and s' is s
   itself for Empty, Lookahead, Eof and Commit. *)
C20_RestIsSuffix ==
    /\ \A i \in 1..Len(out) : IsSuffix(out[i][2], stream)
    /\ matcher.kind \in {"Lookahead", "Commit"} => \A i \in 1..Len(out) : out[i][2] = stream
    /\ \A m \in Children \cup {AnyB, Eof} :
          \A i \in 1..Len(Attempts(m, stream)) :
              /\ IsSuffix(Attempts(m, stream)[i][2], stream)
              /\ m \in {Empty, Eof} => Attempts(m, stream)[i][2] = stream

(* a Repeat with an attempt that consumed nothing and one that stopped inside the stream *)
C20_Witness ==
    /\ matcher.kind = "Repeat"
    /\ \E i, j \in 1..Len(out) :
          /\ out[i][2] = stream
          /\ out[j][2] # stream /\ out[j][2] # <<>>
          /\ out[j][1] # <<>>

(* a generator has taken from its child exactly what it has passed on *)
NothingAhead(generator, child, s, delivered) ==
    generator.state \in {"new", "started"} =>
        delivered + Len(generator.rest) = Len(Attempts(child, s))

(* C21: applying a matcher only constructs the generator: until the first request no
   child has been advanced, no function called and nothing erased, and each request
   takes from the child, calls the function and erases only for the one attempt it
   delivers (an Or, a KApply, a Lookahead, a Delayed and a Commit; a Repeat and an And
   hold nothing before the first request). *)
C21_Lazy ==
    /\ (matcher.kind \in {"And", "Or", "Repeat", "Lookahead", "KApply"} /\ pc = "created") =>
          /\ out = <<>> /\ origin = <<>>
          /\ matcher.kind \in {"And", "Repeat"} => frame.stack = <<>>
          /\ matcher.kind # "And" => frame.generator = None
    /\ (matcher.kind = "Or" /\ frame.generator # None) =>
          NothingAhead(frame.generator[1], matcher.matchers[frame.index], stream,
                       Len(Marked(out, origin, frame.index)))
    /\ (matcher.kind = "KApply" /\ frame.generator # None) =>
          /\ Len(origin) = Len(out) + (IF pc = "error" THEN 1 ELSE 0)
          /\ NothingAhead(frame.generator[1], matcher.matcher, stream, Len(origin))
    /\ (matcher.kind = "Lookahead" /\ frame.generator # None) =>
          NothingAhead(frame.generator[1], matcher.matcher, stream, 1)
    /\ (matcher.kind = "Delayed" /\ frame.generator # None) =>
          NothingAhead(frame.generator[1], matcher.matcher[1], stream, Len(out))
    /\ (matcher.kind = "Commit" /\ HasGc(core) /\ pc = "created") =>
          core[1].gc[1] = frame.calls

(* a bound Delayed applied to a stream and not yet asked: the generator of its target,
   which has two attempts to give, has not been entered *)
C21_Witness ==
    /\ matcher.kind = "Delayed" /\ frame.generator # None
    /\ frame.generator[1].state = "new"
    /\ Len(frame.generator[1].rest) = 2
    /\ out = <<>>

(* C22: for every attempt (R, s') of the child, Apply(child, f, args=True) yields
   ([f(R1, ..., Rn)], s'), f called with the n elements of R as separate arguments,
   whatever the length of R: it never raises, what it has yielded is an
   initial part of those attempts and, once exhausted, all of them. *)
C22_ApplyArgs ==
    (matcher.kind = "Apply" /\ matcher.args /\ ~matcher.raw) =>
        LET child == Attempts(matcher.matcher, stream)
            expected == [i \in 1..Len(child) |-> Attempt(<<F(child[i][1])>>, child[i][2])]
        IN  /\ pc # "error"
            /\ IsPrefix(out, expected)
            /\ pc = "done" => out = expected

(* C23: Drop(m) yields ([], s') for every attempt (_, s') of m, one for one and in the
   same order: what it has yielded is an initial part of those and, once exhausted, all
   of them. *)
C23_Drop ==
    (matcher.kind = "Apply" /\ matcher = Drop(matcher.matcher)) =>
        LET child == Attempts(matcher.matcher, stream)
            expected == [i \in 1..Len(child) |-> Attempt(<<>>, child[i][2])]
        IN  /\ pc # "error"
            /\ IsPrefix(out, expected)
            /\ pc = "done" => out = expected

(* Drop of a child with two attempts that leave different streams, exhausted *)
C23_Witness ==
    /\ matcher.kind = "Apply" /\ matcher = Drop(matcher.matcher)
    /\ pc = "done"
    /\ Len(out) = 2
    /\ out[1][2] # out[2][2]
    /\ Attempts(matcher.matcher, stream)[1][1] # <<>>

(* the arguments the claim calls invalid *)
Invalid(a) ==
    \/ a.start < 0
    \/ a.stop # None /\ a.stop[1] < a.start
    \/ a.direction \notin {0 - 1, 0, 1}

(* C24: for integer arguments the construction of a Repeat, directly or through a[...],
   raises exactly when start < 0, or stop is given and stop < start, or |direction| > 1;
   otherwise it returns a Repeat that holds these arguments, so that no Repeat with
   invalid arguments is ever evaluated. *)
C24_RepeatValidated ==
    pc # "unbuilt" =>
        /\ (matcher = Unbuilt /\ pc = "error") <=> Invalid(frame.args)
        /\ matcher.kind = "Repeat" <=> ~Invalid(frame.args)
        /\ matcher.kind = "Repeat" =>
              /\ matcher.start = frame.args.start
              /\ matcher.stop = frame.args.stop
              /\ matcher.direction = frame.args.direction

(* a[2:1]: start and direction are valid, stop is below start, and the construction
   has raised *)
C24_Witness ==
    /\ matcher = Unbuilt /\ pc = "error"
    /\ frame.args.start = 2 /\ frame.args.stop = Some(1) /\ frame.args.direction = 0

(* the matchers the ~ were applied to, and the last one's value *)
Inverted == Append(origin, matcher)

(* C25: a ~ on a Lookahead gives a Lookahead of the same child with the negated flag
   flipped, so that two ~ on a Lookahead give a matcher with the attempts of the
   Lookahead on every stream, also when it is run; a ~ on any other matcher gives Drop of
   that matcher. *)
C25_Invert ==
    /\ \A i \in 1..Len(origin) :
          IF origin[i].kind = "Lookahead"
          THEN /\ Inverted[i + 1].kind = "Lookahead"
               /\ Inverted[i + 1].matcher = origin[i].matcher
               /\ Inverted[i + 1].negated = ~origin[i].negated
          ELSE Inverted[i + 1] = Drop(origin[i])
    /\ \A i \in 1..(Len(origin) - 1) :
          origin[i].kind = "Lookahead" =>
              \A s \in Streams : Attempts(Inverted[i + 2], s) = Attempts(origin[i], s)
    /\ (Len(origin) = 2 /\ origin[1].kind = "Lookahead" /\ pc = "done") =>
          out = Attempts(origin[1], stream)

(* ~~Lookahead(AnyA) was applied to a stream that starts with "a", and has delivered
   its one attempt *)
C25_Witness ==
    /\ Len(origin) = 2
    /\ origin[1] = Lookahead(AnyA, FALSE)
    /\ pc = "done"
    /\ out = <<Attempt(<<>>, stream)>>
    /\ stream # <<>>

(* C26: Any(restrict) yields the one attempt ([head], stream advanced by 1) iff the
   stream is not empty and, when a restriction was supplied (the empty collection
   included), head is a member of it; otherwise it yields no attempt. *)
C26_AnyRestrict ==
    (matcher.kind = "Any" /\ pc = "done") =>
        out = IF stream # <<>> /\ (matcher.restrict = None \/ stream[1] \in matcher.restrict[1])
              THEN <<Attempt(<<Prefix(stream, 1)>>, Advance(stream, 1))>>
              ELSE <<>>

(* C27: Eof(), built as the code builds it by a ~ on Lookahead(Any()), yields the one
   attempt ([], stream) iff the stream is empty and no attempt on a stream that is not;
   what it yields never consumes input. *)
C27_Eof ==
    (Len(origin) = 1 /\ origin[1] = Lookahead(Any(None), FALSE)) =>
        /\ matcher = Eof
        /\ \A i \in 1..Len(out) : out[i] = Attempt(<<>>, stream)
        /\ pc \in {"yielded", "done"} => (out = <<Attempt(<<>>, stream)>> <=> stream = <<>>)
        /\ pc \in {"yielded", "done"} => (out = <<>> <=> stream # <<>>)

(* Eof() was applied to the empty stream, and is exhausted after its one attempt *)
C27_Witness ==
    /\ Len(origin) = 1
    /\ origin[1] = Lookahead(Any(None), FALSE)
    /\ matcher = Eof
    /\ stream = <<>>
    /\ pc = "done"
    /\ out = <<Attempt(<<>>, <<>>)>>

(* C28: on a stream without a core, or whose core has no gc handle, the request for
   Commit's attempt raises and no attempt is delivered: each evaluation is either not yet
   asked or has raised, the log holds one raise per evaluation asked and nothing else,
   and nothing was erased. *)
C28_CommitNeedsGc ==
    (matcher.kind = "Commit" /\ ~HasGc(core)) =>
        /\ out = <<>>
        /\ pc \in {"created", "error"}
        /\ Len(origin) = frame.calls + (IF pc = "error" THEN 1 ELSE 0)
        /\ \A i \in 1..Len(origin) : origin[i] = "raise"

(* Commit on a plain string that is not empty: the first request has raised *)
C28_Witness ==
    /\ matcher.kind = "Commit"
    /\ core = None
    /\ stream # <<>>
    /\ frame.calls = 0
    /\ pc = "error"
    /\ origin = <<"raise">>
    /\ out = <<>>

(* C29: after a push or the entry of a with block, any number of set, and the matching
   pop or exit (by an exception too), current() and get(name, default) return what they
   returned before the push; and a dict below the top of a stack still holds what it held
   when it was covered, so that nothing set in a scope leaks into the enclosing one. *)
C29_Restored ==
    \A t \in Threads :
        /\ parked[t] # None =>
              /\ View(frame, t) = parked[t][1].before
              /\ \A name \in Names, default \in {"None", "f"} :
                    NamespaceGet(frame, t, name, default) =
                        (IF parked[t][1].before[name] = "absent" THEN default
                         ELSE parked[t][1].before[name])
        /\ \A k \in 1..Len(origin[t]) :
              frame.heap[frame.stack[t][1][k]] = origin[t][k].before

(* a with block in which a name was set was left by an exception, and "+" is again
   what it was *)
C29_Witness ==
    /\ parked["main"] # None
    /\ parked["main"][1].how = "raise"
    /\ parked["main"][1].changed
    /\ parked["main"][1].before["+"] = "f"
    /\ View(frame, "main")["+"] = "f"

(* the addresses of the stack of a thread *)
Frames(t) ==
    IF frame.stack[t] = None THEN {}
    ELSE {frame.stack[t][1][i] : i \in 1..Len(frame.stack[t][1])}

(* C30: the stack is per thread.  A step of one thread never changes what current() and
   get() return in another; the stacks of two threads share no dict; and a thread that has
   not yet touched the namespace sees one empty frame. *)
C30_PerThread ==
    /\ [][\A t \in Threads : pc' # t => View(frame, t)' = View(frame, t)]_vars
    /\ [](\A t \in Threads :
            /\ frame.stack[t] = None => (View(frame, t) = EmptyDict /\ origin[t] = <<>>)
            /\ frame.stack[t] # None => Len(frame.stack[t][1]) = Len(origin[t]) + 1
            /\ \A u \in Threads \ {t} : Frames(t) \cap Frames(u) = {})

(* the worker is in a scope of its own where only "+" is bound, while only "&" is
   bound for main, which has moved last *)
C30_Witness ==
    /\ frame.stack["worker"] # None
    /\ Len(origin["worker"]) = 1
    /\ View(frame, "worker") = [EmptyDict EXCEPT !["+"] = "f"]
    /\ View(frame, "main") = [EmptyDict EXCEPT !["&"] = "f"]
    /\ pc = "main"

(* C31: CircularFifo(size) stores up to size entries: an append returns None while fewer
   than size entries are stored, and on a full queue it discards and returns the oldest
   entry still present; the number of stored entries never exceeds size. *)
C31_AppendDrops ==
    matcher.kind = "CircularFifo" =>
        /\ frame.size <= Len(frame.buffer)
        /\ parked.op = "append" =>
              /\ pc = "returned"
              /\ IF Len(parked.before) < Len(frame.buffer)
                 THEN out = <<"None">>
                 ELSE parked.before # <<>> /\ out = <<parked.before[1]>>

(* C36: under any sequence of append and pop a CircularFifo is the bounded queue that
   drops its oldest entry on overflow: what it stores is that queue's content; pop
   returns and removes the oldest entry; an iteration yields the stored entries from
   oldest to newest and changes nothing; pop on an empty queue or at an index other than 0
   raises IndexError and changes nothing; and no operation ends in any other way. *)
C36_BoundedQueue ==
    matcher.kind = "CircularFifo" =>
        /\ pc \in {"built", "returned", "IndexError"}
        /\ CircularIter(frame) = [raised |-> "no", value |-> origin]
        /\ parked.op = "append" => pc = "returned"
        /\ parked.op = "pop" =>
              IF parked.before = <<>>
              THEN pc = "IndexError" /\ origin = parked.before
              ELSE pc = "returned" /\ out = <<parked.before[1]>> /\ origin = Tail(parked.before)
        /\ parked.op = "pop at" => (pc = "IndexError" /\ origin = parked.before)
        /\ parked.op = "iter" => (pc = "returned" /\ out = origin /\ origin = parked.before)

(* C32: on a finite stream, a Repeat of a child that consumes at least one token in each
   of its finitely many attempts ends after finitely many requests, whatever start, stop
   and direction are. *)
C32_RepeatEnds == <>(pc \in {"done", "error"})

(* C33: when a depth-first Repeat has ended, by exhaustion, by close or by an error, every
   child generator still on its stack is closed; and every child generator taken off the
   stack before was exhausted or had never been started. *)
C33_StackClosed ==
    (matcher.kind = "Repeat" /\ matcher.direction = 0) =>
        /\ pc \in {"done", "error", "closed"} =>
              \A i \in 1..Len(frame.stack) : frame.stack[i].generator.state = "closed"
        /\ pc = "done" => frame.stack = <<>>
        /\ \A i \in 1..Len(frame.dropped) : frame.dropped[i].state \in {"new", "done"}

(* closed at a yield with two levels on the stack, the lower of which had delivered the
   attempt the upper one started from, and after an exhausted generator was taken off *)
C33_Witness ==
    /\ matcher.kind = "Repeat" /\ matcher.direction = 0
    /\ pc = "closed"
    /\ Len(frame.stack) >= 2
    /\ \E i \in 1..Len(frame.dropped) : frame.dropped[i].state = "done"
    /\ \A i \in 1..Len(frame.stack) : frame.stack[i].generator.state = "closed"

RECURSIVE OfCount(_, _, _)
(* the attempts of the given count, in their order *)
OfCount(attempts, counts, n) ==
    IF attempts = <<>> THEN <<>>
    ELSE (IF Head(counts) = n THEN <<Head(attempts)>> ELSE <<>>)
         \o OfCount(Tail(attempts), Tail(counts), n)

RECURSIVE Regrouped(_, _, _)
(* the attempts grouped by count, from count n down to 0 *)
Regrouped(attempts, counts, n) ==
    IF n < 0 THEN <<>>
    ELSE OfCount(attempts, counts, n) \o Regrouped(attempts, counts, n - 1)

(* C34: for the same child, bounds, separator and stream, the exhaustive Repeat
   (direction -1), once exhausted, has yielded the attempts of the breadth-first Repeat
   (direction +1), all of them and no other, grouped from the highest count down, those
   of equal count in their breadth-first order. *)
C34_ExhaustiveRegroups ==
    (matcher.kind = "Repeat" /\ matcher.direction < 0 /\ parked # None) =>
        /\ pc = "error" => parked[1].pc = "error"
        /\ pc = "done" =>
              /\ parked[1].pc = "done"
              /\ out = Regrouped(parked[1].out, parked[1].origin, MaxLen + 1)
              /\ \A i \in 1..Len(parked[1].origin) : parked[1].origin[i] <= MaxLen + 1

(* both are exhausted; the breadth-first one delivered two attempts of one count before
   one of a higher count, and the exhaustive one a different sequence *)
C34_Witness ==
    /\ matcher.kind = "Repeat" /\ matcher.direction < 0 /\ parked # None
    /\ pc = "done"
    /\ \E i \in 1..(Len(parked[1].origin) - 2) :
          /\ parked[1].origin[i] = parked[1].origin[i + 1]
          /\ parked[1].origin[i + 2] > parked[1].origin[i]
          /\ parked[1].out[i] # parked[1].out[i + 1]
    /\ out # parked[1].out

(* C35: a Lookahead asks its child for at most one attempt, and has closed the child's
   generator when it delivers its own attempt and when it is exhausted: no generator it
   opened is left started and unclosed. *)
C35_LookaheadCloses ==
    (matcher.kind = "Lookahead" /\ pc \in {"yielded", "done"}) =>
        /\ frame.generator[1].state \in {"done", "closed"}
        /\ Len(frame.generator[1].rest) + 1 >= Len(Attempts(matcher.matcher, stream))

(* C37: under any interleaving of append and pop a FastFifo is an unbounded FIFO queue:
   it holds the values appended and not yet popped, oldest first (the back list from its
   end, then the front list); len is their number; pop returns and removes the oldest;
   pop on an empty queue or at an index other than 0 raises IndexError and changes
   nothing. *)
C37_Fifo ==
    matcher.kind = "FastFifo" =>
        /\ Reversed(frame.back) \o frame.front = origin
        /\ FastLen(frame) = Len(origin)
        /\ parked.op = "append" => (pc = "returned" /\ origin = Append(parked.before, parked.arg))
        /\ parked.op = "pop" =>
              IF parked.before = <<>>
              THEN pc = "IndexError" /\ origin = parked.before
              ELSE pc = "returned" /\ out = <<parked.before[1]>> /\ origin = Tail(parked.before)
        /\ parked.op = "pop at" => (pc = "IndexError" /\ origin = parked.before)

(* a pop has returned the older of two distinct values while a value appended after an
   earlier pop waits in the front list *)
C37_Witness ==
    /\ matcher.kind = "FastFifo"
    /\ parked.op = "pop"
    /\ Len(parked.before) = 2
    /\ parked.before[1] # parked.before[2]
    /\ out = <<parked.before[1]>>
    /\ frame.back = <<>>
    /\ frame.front # <<>>

(* the events of a request that are the hooks and the advance *)
Steps(events) == SelectSeq(events, LAMBDA e : e \in {"before", "advance", "after"})

(* C38 as stated: every request runs _before once, then advances the wrapped generator
   once, then runs _after once, whether the generator delivers, is exhausted or raises;
   for Trace the switch is on before the advance and off after the request. *)
C38_EveryRequest ==
    (matcher.kind = "Trace" /\ pc # "created") =>
        /\ Steps(origin) = <<"before", "advance", "after">>
        /\ core # None => (origin = <<"before", "on", "advance", "after", "off">>
                            /\ core[1].bb = FALSE)

(* C38, amended: a request runs _before once and _after once, last; when _before returns
   the wrapped generator is advanced once in between, with the trace switch on, and the
   switch is off after the request, whether the generator delivered, was exhausted or
   raised; when _before raises (a stream without a core) the generator is not advanced,
   _after still runs, and the request raises. *)
C38_HooksAroundAdvance ==
    (matcher.kind = "Trace" /\ pc # "created") =>
        IF core # None
        THEN /\ origin = <<"before", "on", "advance", "after", "off">>
             /\ core[1].bb = FALSE
        ELSE /\ origin = <<"before", "raise", "after", "raise">>
             /\ pc = "error"
             /\ frame.generator = Generator(Attempts(matcher.matcher, stream))
             /\ out = <<>>

(* the request that found the child exhausted, after one that delivered: the switch was
   turned on and is off again *)
C38_Witness ==
    /\ matcher.kind = "Trace"
    /\ core = Some([bb |-> FALSE])
    /\ pc = "done"
    /\ Len(out) >= 1
    /\ origin = <<"before", "on", "advance", "after", "off">>

(* C39: after any sequence of push, pop, entry and exit on a Namespace, a pop
   with no push before it included, the stack has at least its base frame and
   current(), get() and set() do not fail *)
C39_BaseFrame ==
    /\ Len(frame.stack) >= 1
    /\ parked \in {"current", "get", "set"} => pc = "returned"

====
